---- MODULE Spec2Model ----
(***************************************************************************)
(* DTE transmission and resilience subsystem of juris-flows-pro            *)
(* (backend/api): control-number allocation, the send pipeline and its     *)
(* response interpreter, the autoresend worker, the connectivity sentinel  *)
(* and the invalidation flow.                                              *)
(***************************************************************************)
EXTENDS Integers, Sequences, FiniteSets, TLC

VARIABLES
  inv,            \* Invoice rows of the database, by id
  records,        \* DTERecord rows, in creation order
  invalidations,  \* DTEInvalidation rows, in creation order
  counter,        \* DTEControlCounter.last_number, by counter key
  locks,          \* row locks on invoices held by open transactions
  th,             \* request / job threads: position and in-memory objects
  now,            \* wall clock, in seconds
  uuids,          \* number of uuid4 values drawn so far
  ops,            \* number of operations started so far
  issued,         \* history: every (key, number) returned by the allocator
  ibody,          \* interpreter specification: the input body
  iresult,        \* interpreter specification: the result
  sen,            \* the connectivity sentinel and CONNECTIVITY_STATUS
  doc             \* payload construction: the totals of the document being built

dbVars == <<inv, records, invalidations, counter, locks>>
pipeVars == <<inv, records, invalidations, counter, locks, th, now, uuids, ops, issued>>
interpVars == <<ibody, iresult>>
\* what the pipeline leaves alone
restVars == <<ibody, iresult, sen, doc>>
vars == <<inv, records, invalidations, counter, locks, th, now, uuids, ops, issued,
          ibody, iresult, sen, doc>>

(***************************************************************************)
(* Strings that the code transforms (str.upper, str.strip) are sequences   *)
(* of one-character strings, so that the transformation is computed.       *)
(***************************************************************************)
Whitespace == {" ", "\t", "\n"}

LowerToUpper ==
  [c \in {"r", "e", "c", "i", "b", "d", "o"} |->
     CASE c = "r" -> "R" [] c = "e" -> "E" [] c = "c" -> "C" [] c = "i" -> "I"
       [] c = "b" -> "B" [] c = "d" -> "D" [] c = "o" -> "O"]

UpperChar(c) == IF c \in DOMAIN LowerToUpper THEN LowerToUpper[c] ELSE c

\* mutant: the description is compared without upper-casing
Upper_Identity(s) == s

\* str.upper()
Upper(s) == [k \in 1..Len(s) |-> UpperChar(s[k])]

RECURSIVE LStrip(_)
LStrip(s) == IF s # <<>> /\ Head(s) \in Whitespace THEN LStrip(Tail(s)) ELSE s

RECURSIVE RStrip(_)
RStrip(s) ==
  IF s # <<>> /\ s[Len(s)] \in Whitespace THEN RStrip(SubSeq(s, 1, Len(s) - 1)) ELSE s

\* str.strip()
Strip(s) == RStrip(LStrip(s))

RECIBIDO_CHARS == <<"R", "E", "C", "I", "B", "I", "D", "O">>

(***************************************************************************)
(* JSON values of a bridge response.  A member that may be missing, null   *)
(* or of another type carries a tag; "estado" values are plain strings     *)
(* with the two markers ABSENT and JNULL for a missing key and a null.     *)
(***************************************************************************)
ABSENT == "<absent>"
JNULL == "<null>"

EstadoValues == {ABSENT, JNULL, "", "PROCESADO", "RECIBIDO", "recibido", "RECHAZADO"}

DescStrings ==
  { <<>>,
    RECIBIDO_CHARS,
    <<" ">> \o RECIBIDO_CHARS \o <<"\n">>,
    <<"r", "e", "c", "i", "b", "i", "d", "o">>,
    <<"R", "e", "c", "i", "b", "i", "d", "o", " ">>,
    <<"R", "E", "C", "I", "B", "I", "D">>,
    <<"R", "E", " ", "C", "I", "B", "I", "D", "O">>,
    <<"O", "K">> }

\* descripcionMsg: a string, a missing key, a JSON null or a JSON number
DescValues ==
  { [t |-> "str", s |-> d] : d \in DescStrings }
    \cup { [t |-> k, s |-> <<>>] : k \in {"absent", "null", "num"} }

\* respuesta_hacienda / hacienda_response: missing, null, {}, a non-empty
\* object, or a non-empty string (a truthy value that is not an object)
HRespPlain ==
  { [k |-> x, estado |-> ABSENT, desc |-> [t |-> "absent", s |-> <<>>]] :
       x \in {"absent", "null", "empty", "str"} }

HRespDicts == { [k |-> "dict", estado |-> e, desc |-> d] : e \in EstadoValues, d \in DescValues }

HRespValues == HRespPlain \cup HRespDicts

NoHResp == [k |-> "absent", estado |-> ABSENT, desc |-> [t |-> "absent", s |-> <<>>]]

\* a few values for the alias key
HRespAlias ==
  { NoHResp,
    [k |-> "dict", estado |-> "RECIBIDO", desc |-> [t |-> "absent", s |-> <<>>]],
    [k |-> "dict", estado |-> "RECHAZADO", desc |-> [t |-> "str", s |-> <<"O", "K">>]] }

\* the "error" member: kind, its nested authority response and its message
NoError == [k |-> "absent", rh |-> NoHResp, hr |-> NoHResp, message |-> ABSENT]

ErrorValues ==
  { [k |-> x, rh |-> NoHResp, hr |-> NoHResp, message |-> ABSENT] :
       x \in {"absent", "null", "empty", "str"} }
    \cup { [k |-> "dict", rh |-> r, hr |-> a, message |-> m] :
             r \in HRespValues, a \in HRespAlias, m \in {ABSENT, "bridge says no"} }

SuccessValues == {"true", "false", "null", "absent", "other"}

\* a parsed JSON body: an object with the members the code reads, or a
\* JSON value that is not an object (list, string, number)
NonDictBody ==
  [kind |-> "list", success |-> "absent", rh |-> NoHResp, hr |-> NoHResp, error |-> NoError,
   sello |-> FALSE]

Bodies ==
  { [kind |-> "dict", success |-> s, rh |-> r, hr |-> a, error |-> NoError, sello |-> FALSE] :
       s \in SuccessValues, r \in HRespValues, a \in HRespAlias }
    \cup { [kind |-> "dict", success |-> s, rh |-> NoHResp, hr |-> NoHResp, error |-> e,
             sello |-> FALSE] :
             s \in {"false", "absent"}, e \in ErrorValues }
    \cup { NonDictBody }

(***************************************************************************)
(* Python semantics used by interpret_dte_response                         *)
(***************************************************************************)
\* truthiness of a nested object value: missing (None), null and {} are falsy
HTruthy(h) == h.k \in {"dict", "str"}

\* a or b or {}
OrElse(a, b) ==
  IF HTruthy(a) THEN a
  ELSE IF HTruthy(b) THEN b
  ELSE [k |-> "empty", estado |-> ABSENT, desc |-> [t |-> "absent", s |-> <<>>]]

\* .get() exists on objects only; on any other value it raises AttributeError
HasGet(h) == h.k \in {"dict", "empty"}

\* hresp.get("estado", default)
GetEstado(h, default) == IF h.k = "dict" /\ h.estado # ABSENT THEN h.estado ELSE default

\* estado_h or default: None and "" are falsy
EstadoOr(e, default) == IF e \in {JNULL, ""} THEN default ELSE e

\* hresp.get("descripcionMsg", "")
GetDesc(h) ==
  IF h.k = "dict" /\ h.desc.t # "absent" THEN h.desc ELSE [t |-> "str", s |-> <<>>]

Raised == [raised |-> TRUE, interno |-> "", hacienda |-> ""]
Returned(i, h) == [raised |-> FALSE, interno |-> i, hacienda |-> h]

\* the success = false branch
InterpretFailure(body) ==
  LET error == IF body.error.k \in {"dict", "str"}
               THEN body.error
               ELSE [k |-> "empty", rh |-> NoHResp, hr |-> NoHResp, message |-> ABSENT]
  IN IF error.k = "str" THEN Raised
     ELSE LET hresp == OrElse(error.rh, error.hr)
          IN IF ~HasGet(hresp) THEN Raised
             ELSE Returned("RECHAZADO", GetEstado(hresp, "RECHAZADO"))

\* the success = true branch
InterpretSuccess(body) ==
  LET hresp == OrElse(body.rh, body.hr)
  IN IF ~HasGet(hresp) THEN Raised
     ELSE LET estado_h == GetEstado(hresp, "")
              desc == GetDesc(hresp)
          IN IF estado_h \in {"PROCESADO", "RECIBIDO"}
             THEN Returned("ACEPTADO", EstadoOr(estado_h, "RECIBIDO"))
             ELSE IF desc.t # "str" THEN Raised
             ELSE IF Strip(Upper(desc.s)) = RECIBIDO_CHARS
             THEN Returned("ACEPTADO", EstadoOr(estado_h, "RECIBIDO"))
             ELSE Returned("PENDIENTE", EstadoOr(estado_h, "DESCONOCIDO"))

interpret_dte_response(body) ==
  IF body.kind # "dict" THEN Raised
  ELSE IF body.success = "false" THEN InterpretFailure(body)
  ELSE IF body.success = "true" THEN InterpretSuccess(body)
  ELSE Returned("PENDIENTE", "SIN_RESPUESTA")

\* no result yet / no body
NoResult == [raised |-> FALSE, interno |-> "none", hacienda |-> "none"]
NoBody ==
  [kind |-> "none", success |-> "absent", rh |-> NoHResp, hr |-> NoHResp, error |-> NoError,
   sello |-> FALSE]

(***************************************************************************)
(* Bounds of the model                                                     *)
(***************************************************************************)
MaxOps == 2        \* operations (requests, jobs) started in one behaviour
MaxTicks == 1      \* clock advances, each of one backoff window
MaxPolls == 4      \* polls of the connectivity sentinel
MaxStarts == 3     \* calls of the sentinel's start()
MaxAttempts == 3   \* attempts and records the model of the command keeps count of
MaxLines == 2      \* items of an invoice
MaxQuantity == 2   \* quantity of an item
MaxUnitPrice == 226  \* unit price of an item, in cents: every residue of 113 twice

Invoices == {1, 2}
Threads == {"t1", "t2"}

(***************************************************************************)
(* Program constants                                                       *)
(***************************************************************************)
PENDING == "PENDIENTE"
APPROVED == "ACEPTADO"
REJECTED == "RECHAZADO"
INVALIDATED == "INVALIDADO"

DTE_AUTORETRY_BACKOFF_SECONDS == 60
DTE_AUTORETRY_BATCH_SIZE == 25

\* Invoice.DOC_TYPE_CHOICES; the three send functions differ in the payload
\* only, the model keeps the two document types it needs for two counter keys
DocTypes == {"CF", "CCF"}

\* the tipo_dte each send function passes to the allocator
TipoDte(doc_type) ==
  CASE doc_type = "CF" -> "01" [] doc_type = "CCF" -> "03" [] doc_type = "SX" -> "14"

\* counter key (ambiente, tipo_dte, year, est_code, pv_code): ambiente, est_code
\* and pv_code are fixed, and the clock of the model stays within one year
CounterKeys == {"01", "03", "14"}

NoControl == <<>>
\* f"DTE-{tipo_dte}-{est_code}{pv_code}-{correlativo}", zero-padded to 15 digits
ControlNumber(tipo, n) == <<"DTE", tipo, "M002P001", n>>

NoTime == -1
NoCode == "<null>"

\* str(response.status_code)
StatusCodes == {200, 401, 500, 530}
CodeStr(c) ==
  CASE c = 200 -> "200" [] c = 401 -> "401" [] c = 500 -> "500" [] c = 530 -> "530"

\* mutant: only the tunnel's 530 counts as offline
_is_offline_status_Only530(status_code) == status_code = 530

_is_offline_status(status_code) == status_code >= 500 \/ status_code = 530

(***************************************************************************)
(* Bridge responses the pipeline is exercised with                         *)
(***************************************************************************)
AbsentDesc == [t |-> "absent", s |-> <<>>]
DictBody(success, rh, error, sello) ==
  [kind |-> "dict", success |-> success, rh |-> rh, hr |-> NoHResp, error |-> error,
   sello |-> sello]
HDict(estado, desc) == [k |-> "dict", estado |-> estado, desc |-> desc]

BodyProcesado == DictBody("true", HDict("PROCESADO", AbsentDesc), NoError, TRUE)
BodyRecibido ==
  DictBody("true", HDict("RECIBIDO", [t |-> "str", s |-> RECIBIDO_CHARS]), NoError, FALSE)
BodyNullDesc == DictBody("true", HDict("", [t |-> "null", s |-> <<>>]), NoError, FALSE)
BodyRejected ==
  DictBody("false", NoHResp,
           [k |-> "dict", rh |-> HDict("RECHAZADO", [t |-> "str", s |-> <<"O", "K">>]),
            hr |-> NoHResp, message |-> ABSENT], FALSE)
BodyBridgeRefused ==
  DictBody("false", NoHResp,
           [k |-> "dict", rh |-> NoHResp, hr |-> NoHResp, message |-> "bridge says no"], FALSE)
BodyNullEstado ==
  DictBody("false", NoHResp,
           [k |-> "dict", rh |-> HDict(JNULL, AbsentDesc), hr |-> NoHResp, message |-> ABSENT],
           FALSE)
BodyEmpty == DictBody("absent", NoHResp, NoError, FALSE)

PipelineBodies ==
  { BodyProcesado, BodyRecibido, BodyNullDesc, BodyRejected, BodyBridgeRefused,
    BodyNullEstado, NonDictBody }

\* requests.post: a RequestException (connection error, timeout), or a
\* response with a status code and a text that parses as JSON or does not
NetworkError == [net |-> "error", code |-> 0, json |-> FALSE, body |-> NoBody]
HttpResponse(code, json, body) == [net |-> "ok", code |-> code, json |-> json, body |-> body]

Responses ==
  { NetworkError }
    \cup { HttpResponse(200, TRUE, b) : b \in PipelineBodies }
    \cup { HttpResponse(200, FALSE, NoBody),
           HttpResponse(401, TRUE, BodyBridgeRefused),
           HttpResponse(500, TRUE, BodyRecibido),
           HttpResponse(530, FALSE, NoBody) }

\* no response of the bridge yet
NoBridge == [net |-> "none", code |-> 0, json |-> FALSE, body |-> NoBody]

\* response.json(), with {"raw_text": response.text} when the text is no JSON
ResponseData(resp) == IF resp.json THEN resp.body ELSE BodyEmpty

(***************************************************************************)
(* Database rows and in-memory objects                                     *)
(***************************************************************************)
NoRow ==
  [exists |-> FALSE, doc_type |-> "CF", has_items |-> FALSE, dte_status |-> PENDING,
   numero_control |-> NoControl, codigo_generacion |-> 0, dte_send_attempts |-> 0,
   last_dte_error_code |-> NoCode, last_dte_sent_at |-> NoTime, dte_is_sending |-> FALSE]

\* Invoice.objects.create: model defaults
NewRow(doc_type, has_items) ==
  [NoRow EXCEPT !.exists = TRUE, !.doc_type = doc_type, !.has_items = has_items]

\* the Invoice instance a thread works on: a copy of the row taken when it
\* was loaded, plus the attributes the pipeline sets on the instance only
\* (pending_due_to_outage and dte_message are set by the pipeline;
\* pending_due_to_api_down is the attribute the HTTP handlers read, which no
\* code of the pipeline sets)
Load(row) ==
  [row |-> row, pending_due_to_outage |-> FALSE, dte_message |-> FALSE,
   pending_due_to_api_down |-> FALSE]
NoInvoice == Load(NoRow)

NoFinal == [status |-> "none", code |-> NoCode, outage |-> FALSE]

\* the HTTP response of the last request a thread served; none while it
\* serves one, and none for a job
NoResponse == [op |-> "none", i |-> 0, status |-> 0, ret |-> 0, raised |-> 0]

IdleThread ==
  [pc |-> "idle", op |-> "none", source |-> "none", i |-> 0, m |-> NoInvoice,
   rec |-> 0, cnv |-> 0, now_local |-> NoTime, fin |-> NoFinal,
   batch |-> <<>>, k |-> 0, sent |-> 0, ival |-> 0,
   upd |-> {}, allow |-> TRUE, path |-> "none", http |-> 0, resp |-> NoResponse,
   limit |-> 0, raised |-> 0, bridge |-> NoBridge]

\* the thread after it answered a request on invoice i with an HTTP status
Respond(op, i, status) ==
  [IdleThread EXCEPT !.resp = [NoResponse EXCEPT !.op = op, !.i = i, !.status = status]]

\* the thread after its job returned: ret is the value returned, raised the
\* number of pipeline calls of the job that raised
Return(s) ==
  [IdleThread EXCEPT !.resp = [NoResponse EXCEPT !.op = s.op, !.ret = s.sent,
                                                 !.raised = s.raised]]

\* InvoiceViewSet.create and _resend_invoice_dte after the pipeline call:
\* 202 when the instance carries _dte_pending_due_to_api_down, else 201 for
\* a creation and 200 for a resend
HandlerStatus(op, m) ==
  IF m.pending_due_to_api_down THEN 202
  ELSE IF op = "create" THEN 201 ELSE 200

\* send_cf_dte_for_invoice before the loop over the items: total_base,
\* total_iva and total_gross are Decimal("0.00"); amounts are in cents
NoDoc == [n |-> 0, total_base |-> 0, total_iva |-> 0, total_gross |-> 0,
          built |-> FALSE, monto_total_operacion |-> 0,
          totalGravada |-> 0, totalNoSuj |-> 0, no_sujeta |-> 0]

InitPipe ==
  /\ inv = [i \in Invoices |-> NoRow]
  /\ records = <<>>
  /\ invalidations = <<>>
  /\ counter = [k \in CounterKeys |-> 0]
  /\ locks = [i \in Invoices |-> "none"]
  /\ th = [t \in Threads |-> IdleThread]
  /\ now = 0
  /\ uuids = 0
  /\ ops = 0
  /\ issued = <<>>
  /\ doc = NoDoc

NoInterp ==
  /\ ibody = NoBody
  /\ iresult = NoResult

\* a row that another open transaction has locked cannot be written
Writable(t, i) == locks[i] \in {"none", t}

(***************************************************************************)
(* dte_cf_service: identifiers, allocator, attempt bookkeeping             *)
(***************************************************************************)
\* _build_numero_control: the sequence number it returns for a key
NextNumber(key) == counter[key] + 1

\* mutant: the processed number is written whatever the stored one
MarkProcessed_Always(key, processed_number) == [counter EXCEPT ![key] = processed_number]

\* _mark_control_number_processed: the counter after the call
MarkProcessed(key, processed_number) ==
  IF processed_number > counter[key]
  THEN [counter EXCEPT ![key] = processed_number]
  ELSE counter

\* _mark_invoice_attempt: the instance after the call; its five fields are
\* then saved with update_fields
MarkAttempt(m, now_local, status, code) ==
  [m EXCEPT !.row.dte_status = status,
            !.row.last_dte_sent_at = now_local,
            !.row.dte_send_attempts = m.row.dte_send_attempts + 1,
            !.row.last_dte_error_code = code]

SaveAttempt(row, m) ==
  [row EXCEPT !.dte_status = m.row.dte_status,
              !.last_dte_sent_at = m.row.last_dte_sent_at,
              !.dte_send_attempts = m.row.dte_send_attempts,
              !.last_dte_error_code = m.row.last_dte_error_code]

(***************************************************************************)
(* Helpers on sets and sequences                                           *)
(***************************************************************************)
Min(S) == CHOOSE x \in S : \A y \in S : x <= y

\* order_by("id")
RECURSIVE OrderById(_)
OrderById(S) == IF S = {} THEN <<>> ELSE <<Min(S)>> \o OrderById(S \ {Min(S)})

\* queryset[:limit]
Limit(s, limit) == SubSeq(s, 1, IF Len(s) < limit THEN Len(s) ELSE limit)

Range(s) == { s[k] : k \in DOMAIN s }

Set(t, f) == th' = [th EXCEPT ![t] = f]

(***************************************************************************)
(* Entry points                                                            *)
(***************************************************************************)
\* a request or job is served by a free thread; which one is immaterial, so
\* the first free thread takes it
BeginOp(t) ==
  /\ th[t].pc = "idle"
  /\ ops < MaxOps
  /\ t = "t2" => th["t1"].pc # "idle"

ResendSources == {"manual_resend", "auto_resend"}

\* the operations that loop over a batch of invoices: the retry worker of
\* dte_autoresend and autoresend_pending_invoices of dte_cf_service
Workers == {"auto", "cf_auto"}

\* transmit_invoice_dte up to the first database access of the attempt: the
\* checks on the instance, and the generated code of
\* _ensure_invoice_dte_identifiers.  `fresh` is the uuid4 it would draw.
\* The result is the thread at its next step.
TransmitInvoiceDte(s, fresh) ==
  LET m == s.m
      hasCode == m.row.codigo_generacion # 0
      hasControl == m.row.numero_control # NoControl
      at == [s EXCEPT !.now_local = now]
  IN
  IF s.source \in ResendSources /\ m.row.dte_status # PENDING
  THEN [at EXCEPT !.pc = "returned", !.path = "not_pending"]
  ELSE IF ~m.row.has_items
  THEN [at EXCEPT !.pc = "mark", !.path = "no_items",
                  !.fin = [status |-> PENDING, code |-> "no_items", outage |-> FALSE]]
  ELSE IF ~s.allow /\ (~hasCode \/ ~hasControl)
  THEN [at EXCEPT !.pc = "mark", !.path = "missing_identifiers",
                  !.fin = [status |-> PENDING, code |-> "missing_identifiers",
                           outage |-> FALSE]]
  ELSE [at EXCEPT
          !.m.row.codigo_generacion = IF hasCode THEN @ ELSE fresh,
          !.upd = IF hasCode THEN {} ELSE {"codigo_generacion"},
          !.pc = IF ~hasControl THEN "alloc"
                 ELSE IF ~hasCode THEN "save_ids" ELSE "create_record"]

\* whether the attempt draws a uuid4
DrawsUuid(s) == "codigo_generacion" \in s.upd

\* send_dte_for_invoice, the pipeline entry the serializer, the resend view
\* and the retry worker call: it runs transmit_invoice_dte on the instance
\* it is given, generating identifiers when they are missing
send_dte_for_invoice(op, source, i, m) ==
  TransmitInvoiceDte(
    [IdleThread EXCEPT !.pc = "transmit", !.op = op, !.source = source, !.i = i, !.m = m],
    uuids + 1)

\* the pipeline call of an entry point by thread t
Call(t, s) ==
  /\ Set(t, IF s.pc = "returned" /\ s.op \notin Workers
            THEN Respond(s.op, s.i, HandlerStatus(s.op, s.m))
            ELSE s)
  /\ uuids' = IF DrawsUuid(s) THEN uuids + 1 ELSE uuids

\* InvoiceSerializer.create: insert the invoice and its items, then send
InvoiceCreate(t) ==
  /\ BeginOp(t)
  /\ \E i \in Invoices, d \in DocTypes, items \in BOOLEAN :
       /\ ~inv[i].exists
       /\ \A j \in Invoices : j < i => inv[j].exists
       /\ inv' = [inv EXCEPT ![i] = NewRow(d, items)]
       /\ Call(t, send_dte_for_invoice("create", "normal_send", i, Load(NewRow(d, items))))
  /\ ops' = ops + 1
  /\ UNCHANGED <<records, invalidations, counter, locks, now, issued, restVars>>

\* mutant: the view leaves the status check to the pipeline
ResendRefused_Never(row) == FALSE

\* views._resend_invoice_dte: the status check on the loaded invoice
ResendRefused(row) == row.dte_status # PENDING

\* views._resend_invoice_dte: 400 unless the loaded invoice is PENDIENTE
ResendInvoiceDte(t) ==
  /\ BeginOp(t)
  /\ \E i \in Invoices :
       /\ inv[i].exists
       /\ IF ResendRefused(inv[i])
          THEN Set(t, Respond("manual", i, 400)) /\ UNCHANGED uuids
          ELSE Call(t, send_dte_for_invoice("manual", "manual_resend", i, Load(inv[i])))
  /\ ops' = ops + 1
  /\ UNCHANGED <<dbVars, now, issued, restVars>>

(***************************************************************************)
(* send_cf / send_ccf / send_se_dte_for_invoice                            *)
(***************************************************************************)
\* _build_numero_control, called by _ensure_invoice_dte_identifiers
BuildNumeroControl(t) ==
  LET s == th[t]
      key == TipoDte(s.m.row.doc_type)
      next_number == NextNumber(key)
  IN
  /\ s.pc = "alloc"
  /\ issued' = Append(issued, [key |-> key, number |-> next_number])
  /\ Set(t, [s EXCEPT !.pc = "save_ids", !.cnv = next_number,
                      !.m.row.numero_control = ControlNumber(key, next_number),
                      !.upd = @ \cup {"numero_control"}])
  /\ UNCHANGED <<dbVars, now, uuids, ops, restVars>>

\* mutant: the identifiers stay on the instance until the attempt is marked
SaveIdentifiers_Deferred(t) ==
  /\ th[t].pc = "save_ids"
  /\ Set(t, [th[t] EXCEPT !.pc = "create_record"])
  /\ UNCHANGED <<dbVars, now, uuids, ops, issued, restVars>>

\* _ensure_invoice_dte_identifiers: invoice.save(update_fields=update_fields)
SaveIdentifiers(t) ==
  LET s == th[t]
      i == s.i
  IN
  /\ s.pc = "save_ids"
  /\ Writable(t, i)
  /\ inv' = [inv EXCEPT
       ![i].codigo_generacion =
           IF "codigo_generacion" \in s.upd THEN s.m.row.codigo_generacion ELSE @,
       ![i].numero_control =
           IF "numero_control" \in s.upd THEN s.m.row.numero_control ELSE @]
  /\ Set(t, [s EXCEPT !.pc = "create_record"])
  /\ UNCHANGED <<records, invalidations, counter, locks, now, uuids, ops, issued, restVars>>

\* the payload is built and DTERecord.objects.create(status="ENVIANDO", ...)
CreateRecord(t) ==
  LET s == th[t]
  IN
  /\ s.pc = "create_record"
  /\ records' = Append(records,
        [invoice |-> s.i, status |-> "ENVIANDO", hacienda_state |-> "",
         control_number |-> s.m.row.numero_control,
         numeroControl |-> s.m.row.numero_control,
         codigoGeneracion |-> s.m.row.codigo_generacion,
         sello |-> FALSE, answered |-> FALSE])
  /\ Set(t, [s EXCEPT !.pc = "post", !.rec = Len(records) + 1])
  /\ UNCHANGED <<inv, invalidations, counter, locks, now, uuids, ops, issued, restVars>>

\* what the send function may raise before its network call, while it
\* allocates and saves the identifiers, builds the payload and creates the
\* record: a ValueError (an unsupported document type, a value that cannot
\* be converted), or any other exception (a database error)
Exceptions == {"ValueError", "DatabaseError"}

\* an exception that transmit_invoice_dte does not catch leaves it and
\* send_dte_for_invoice: the serializer logs it and the creation answers
\* 201, the resend view has no handler (500), the loop of a worker logs it
\* and goes on without counting the invoice as sent
Propagate(s) ==
  CASE s.op = "create" -> Respond("create", s.i, 201)
    [] s.op = "manual" -> Respond("manual", s.i, 500)
    [] s.op \in Workers -> [s EXCEPT !.pc = "returned", !.path = "raised"]

\* transmit_invoice_dte: its except clause takes ValueError only, and marks
\* the attempt invalid_payload
TransmitCatches(s, exc) ==
  IF exc = "ValueError"
  THEN [s EXCEPT !.pc = "mark", !.path = "invalid_payload",
                 !.fin = [status |-> PENDING, code |-> "invalid_payload", outage |-> FALSE]]
  ELSE Propagate(s)

\* the send function raises before its network call
SendRaises(t) ==
  LET s == th[t]
  IN
  /\ s.pc \in {"alloc", "save_ids", "create_record"}
  /\ \E exc \in Exceptions : Set(t, TransmitCatches(s, exc))
  /\ UNCHANGED <<dbVars, now, uuids, ops, issued, restVars>>

\* mutant: the except branch marks the invoice and leaves the record alone
Handling_NoFallback(resp) ==
  LET r == interpret_dte_response(ResponseData(resp))
      pend == [status |-> PENDING, hacienda_state |-> "SIN_RESPUESTA", sello |-> FALSE]
  IN
  IF resp.net = "error"
  THEN [rec |-> pend, path |-> "network_error",
        fin |-> [status |-> PENDING, code |-> "network_error", outage |-> TRUE]]
  ELSE IF _is_offline_status(resp.code)
  THEN [rec |-> pend, path |-> "offline",
        fin |-> [status |-> PENDING, code |-> CodeStr(resp.code), outage |-> TRUE]]
  ELSE IF r.raised \/ r.hacienda = JNULL
  THEN [rec |-> [status |-> "ENVIANDO", hacienda_state |-> "", sello |-> FALSE],
        path |-> "fallback",
        fin |-> [status |-> PENDING, code |-> "unexpected_error", outage |-> FALSE]]
  ELSE [rec |-> [status |-> r.interno, hacienda_state |-> r.hacienda,
                 sello |-> ResponseData(resp).sello],
        path |-> "parsed",
        fin |-> [status |-> r.interno, code |-> NoCode, outage |-> FALSE]]

\* mutant: the outage is not flagged on the instance
_mark_invoice_offline_NoFlag(code) == [status |-> PENDING, code |-> code, outage |-> FALSE]

\* _mark_invoice_offline(invoice, now_local, error, code): what it makes
\* _mark_invoice_attempt write, and the flag it sets on the instance
_mark_invoice_offline(code) == [status |-> PENDING, code |-> code, outage |-> TRUE]

\* what the send function writes to the record for a response, and what it
\* will then write to the invoice
Handling(resp) ==
  LET data == ResponseData(resp)
      r == interpret_dte_response(data)
      pend == [status |-> PENDING, hacienda_state |-> "SIN_RESPUESTA", sello |-> FALSE]
  IN
  IF resp.net = "error"
  THEN [rec |-> pend, path |-> "network_error", fin |-> _mark_invoice_offline("network_error")]
  ELSE IF _is_offline_status(resp.code)
  THEN [rec |-> pend, path |-> "offline", fin |-> _mark_invoice_offline(CodeStr(resp.code))]
  ELSE IF r.raised \/ r.hacienda = JNULL
  THEN \* interpret raised, or record.save refused a null hacienda_state:
       \* the except branch
       [rec |-> pend, path |-> "fallback",
        fin |-> [status |-> PENDING, code |-> "unexpected_error", outage |-> FALSE]]
  ELSE [rec |-> [status |-> r.interno, hacienda_state |-> r.hacienda, sello |-> data.sello],
        path |-> "parsed",
        fin |-> [status |-> r.interno, code |-> NoCode, outage |-> FALSE]]

\* mutant: the attempts of the retry job are classified apart, always as
\* left without an answer
HandlingFor_AutoApart(source, resp) ==
  IF source = "auto_resend" THEN Handling(NetworkError) ELSE Handling(resp)

\* the handling of a response in an attempt of a given source: the send
\* function takes the source of the attempt and does not read it
HandlingFor(source, resp) == Handling(resp)

\* requests.post and the handling of its result up to record.save; with
\* `keep` the thread keeps the response it got, for comparison
PostAndFinalize(t, keep) ==
  LET s == th[t]
  IN
  /\ s.pc = "post"
  /\ \E resp \in Responses :
       LET h == HandlingFor(s.source, resp)
       IN /\ records' = [records EXCEPT ![s.rec] =
                 [@ EXCEPT !.status = h.rec.status, !.hacienda_state = h.rec.hacienda_state,
                           !.sello = h.rec.sello, !.answered = TRUE]]
          /\ Set(t, [s EXCEPT !.fin = h.fin, !.path = h.path, !.http = resp.code,
                              !.bridge = IF keep THEN resp ELSE NoBridge,
                              !.pc = IF h.path = "parsed" /\ h.rec.hacienda_state = "PROCESADO"
                                     THEN "watermark" ELSE "mark"])
  /\ UNCHANGED <<inv, invalidations, counter, locks, now, uuids, ops, issued, restVars>>

PostAndFinalizeRecord(t) == PostAndFinalize(t, FALSE)

\* the same step, in the specification that compares the attempts
PostAndKeepResponse(t) == PostAndFinalize(t, TRUE)

\* _mark_control_number_processed(..., control_number_value or 0)
MarkControlNumberProcessed(t) ==
  LET s == th[t]
  IN
  /\ s.pc = "watermark"
  /\ counter' = MarkProcessed(TipoDte(s.m.row.doc_type), s.cnv)
  /\ Set(t, [s EXCEPT !.pc = "mark"])
  /\ UNCHANGED <<inv, records, invalidations, locks, now, uuids, ops, issued, restVars>>

\* _mark_invoice_attempt / _mark_invoice_offline at the end of the send
MarkInvoice(t) ==
  LET s == th[t]
      m2 == [MarkAttempt(s.m, s.now_local, s.fin.status, s.fin.code) EXCEPT
               !.pending_due_to_outage = s.fin.outage,
               !.dte_message = s.path \notin {"no_items", "missing_identifiers",
                                              "invalid_payload"}]
  IN
  /\ s.pc = "mark"
  /\ Writable(t, s.i)
  /\ inv' = [inv EXCEPT ![s.i] = SaveAttempt(@, m2)]
  /\ Set(t, IF s.op \in Workers THEN [s EXCEPT !.pc = "returned", !.m = m2]
            ELSE Respond(s.op, s.i, HandlerStatus(s.op, m2)))
  /\ UNCHANGED <<records, invalidations, counter, locks, now, uuids, ops, issued, restVars>>

(***************************************************************************)
(* dte_autoresend: the retry worker                                        *)
(***************************************************************************)
\* _pending_queryset
PendingFilter(row, backoff_seconds) ==
  /\ row.exists
  /\ row.dte_status = PENDING
  /\ row.dte_is_sending = FALSE
  /\ backoff_seconds > 0 =>
       (row.last_dte_sent_at = NoTime \/ row.last_dte_sent_at <= now - backoff_seconds)

\* mutant: a plain SELECT, without the row locks
SelectSkipLocked_NoLock(t, backoff_seconds) ==
  { i \in Invoices : PendingFilter(inv[i], backoff_seconds) }

\* the rows select_for_update(skip_locked=True) returns: rows that match and
\* that no other open transaction has locked
SelectSkipLocked(t, backoff_seconds) ==
  { i \in Invoices : PendingFilter(inv[i], backoff_seconds) /\ locks[i] = "none" }

\* _reserve_pending_invoices, first half: the locking SELECT
ReservePendingInvoices(t) ==
  /\ BeginOp(t)
  /\ \E limit \in {1, DTE_AUTORETRY_BATCH_SIZE} :
       LET ids == Limit(OrderById(SelectSkipLocked(t, DTE_AUTORETRY_BACKOFF_SECONDS)), limit)
       IN /\ locks' = [i \in Invoices |-> IF i \in Range(ids) THEN t ELSE locks[i]]
          /\ Set(t, [IdleThread EXCEPT !.pc = "reserve_commit", !.op = "auto", !.limit = limit,
                        !.batch = [k \in DOMAIN ids |-> [i |-> ids[k], m |-> Load(inv[ids[k]])]]])
  /\ ops' = ops + 1
  /\ UNCHANGED <<inv, records, invalidations, counter, now, uuids, issued, restVars>>

\* the thread of the worker when it turns to the k-th reserved invoice
NextOfBatch(s, k) ==
  IF k > Len(s.batch)
  THEN Return(s)
  ELSE [send_dte_for_invoice("auto", "auto_resend", s.batch[k].i, s.batch[k].m) EXCEPT
          !.batch = s.batch, !.k = k, !.sent = s.sent, !.limit = s.limit,
          !.raised = s.raised]

\* _reserve_pending_invoices, second half: dte_is_sending = True on every
\* selected invoice, commit; then the worker starts on the first invoice
ReserveCommit(t) ==
  LET s == th[t]
      marked == [k \in DOMAIN s.batch |->
                   [i |-> s.batch[k].i,
                    m |-> [s.batch[k].m EXCEPT !.row.dte_is_sending = TRUE]]]
      reserved == { s.batch[k].i : k \in DOMAIN s.batch }
  IN
  /\ s.pc = "reserve_commit"
  /\ inv' = [i \in Invoices |->
               IF i \in reserved THEN [inv[i] EXCEPT !.dte_is_sending = TRUE] ELSE inv[i]]
  /\ locks' = [i \in Invoices |-> IF locks[i] = t THEN "none" ELSE locks[i]]
  /\ Call(t, NextOfBatch([s EXCEPT !.batch = marked], 1))
  /\ UNCHANGED <<records, invalidations, counter, now, ops, issued, restVars>>

\* mutant: sent counts every call
Sent_CountsAll(s) == s.sent + 1

\* both workers: sent += 1 follows the pipeline call inside the try
Sent(s) == IF s.path = "raised" THEN s.sent ELSE s.sent + 1

\* the thread of a worker at the end of the turn of an invoice
EndOfTurn(s) ==
  [s EXCEPT !.sent = Sent(s), !.raised = IF s.path = "raised" THEN @ + 1 ELSE @]

\* mutant: the flag is given back after the call, not in a finally clause
AutoresendFinally_NoFinally(t) ==
  LET s == th[t]
  IN
  /\ s.pc = "returned"
  /\ s.op = "auto"
  /\ Writable(t, s.i)
  /\ inv' = [inv EXCEPT ![s.i].dte_is_sending = IF s.path = "raised" THEN @ ELSE FALSE]
  /\ Call(t, NextOfBatch(EndOfTurn(s), s.k + 1))
  /\ UNCHANGED <<records, invalidations, counter, locks, now, ops, issued, restVars>>

\* autoresend_pending_invoices: sent += 1 and the finally clause of one
\* invoice, then the next invoice of the batch
AutoresendFinally(t) ==
  LET s == th[t]
  IN
  /\ s.pc = "returned"
  /\ s.op = "auto"
  /\ Writable(t, s.i)
  /\ inv' = [inv EXCEPT ![s.i].dte_is_sending = FALSE]
  /\ Call(t, NextOfBatch(EndOfTurn(s), s.k + 1))
  /\ UNCHANGED <<records, invalidations, counter, locks, now, ops, issued, restVars>>

(***************************************************************************)
(* dte_cf_service.autoresend_pending_invoices                              *)
(***************************************************************************)
\* the orders in which a query without order_by may return the rows of S
Orderings(S) ==
  { q \in [1..Cardinality(S) -> S] : \A a, b \in DOMAIN q : a # b => q[a] # q[b] }

\* the filter of its locking SELECT
HasIdentifiersFilter(row) ==
  /\ row.exists
  /\ row.dte_status = PENDING
  /\ row.codigo_generacion # 0
  /\ row.numero_control # NoControl

\* Invoice.objects.get(pk=invoice_id) and transmit_invoice_dte on it; the
\* thread of the job when it turns to the k-th id
NextOfIds(s, k) ==
  IF k > Len(s.batch)
  THEN Return(s)
  ELSE [TransmitInvoiceDte(
          [IdleThread EXCEPT !.pc = "transmit", !.op = "cf_auto", !.source = "auto_resend",
                             !.i = s.batch[k].i, !.m = Load(inv[s.batch[k].i])],
          uuids + 1)
        EXCEPT !.batch = s.batch, !.k = k, !.sent = s.sent, !.raised = s.raised]

\* the transaction that lists the ids (its row locks end with it), then the
\* first invoice; nothing to do when the list is empty
CfAutoresendPendingInvoices(t) ==
  /\ BeginOp(t)
  /\ \E pending_ids \in Orderings({ i \in Invoices :
                                      HasIdentifiersFilter(inv[i]) /\ locks[i] = "none" }) :
       Call(t, NextOfIds([IdleThread EXCEPT
                            !.batch = [k \in DOMAIN pending_ids |->
                                         [i |-> pending_ids[k], m |-> NoInvoice]]], 1))
  /\ ops' = ops + 1
  /\ UNCHANGED <<dbVars, now, issued, restVars>>

\* sent += 1 after a transmit that returned, then the next id
CfAutoresendNext(t) ==
  LET s == th[t]
  IN
  /\ s.pc = "returned"
  /\ s.op = "cf_auto"
  /\ Call(t, NextOfIds(EndOfTurn(s), s.k + 1))
  /\ UNCHANGED <<dbVars, now, ops, issued, restVars>>

(***************************************************************************)
(* Invalidation                                                            *)
(***************************************************************************)
\* invoice.dte_records.order_by("-created_at").first(); 0 when there is none
LatestRecord(i) ==
  LET own == { k \in DOMAIN records : records[k].invoice = i }
  IN IF own = {} THEN 0 ELSE CHOOSE k \in own : \A j \in own : j <= k

\* mutant: the view lets any invoice that is not yet invalidated through
InvalidateRefused_Never(row) == FALSE

\* DTEInvalidateView.post: the status check on the loaded invoice
InvalidateRefused(row) == row.dte_status # APPROVED

\* DTEInvalidateView.post: 409 / 400 unless the loaded invoice is ACEPTADO
DTEInvalidateView(t) ==
  /\ BeginOp(t)
  /\ \E i \in Invoices :
       /\ inv[i].exists
       /\ IF inv[i].dte_status = INVALIDATED
          THEN Set(t, Respond("invalidate", i, 409))
          ELSE IF InvalidateRefused(inv[i])
          THEN Set(t, Respond("invalidate", i, 400))
          ELSE Set(t, [IdleThread EXCEPT !.pc = "inv_prepare", !.op = "invalidate", !.i = i,
                                         !.m = Load(inv[i])])
  /\ ops' = ops + 1
  /\ UNCHANGED <<dbVars, now, uuids, issued, restVars>>

\* invalidate_dte_for_invoice: refuses (ValueError) when the latest record
\* has no received seal, else calls send_dte_invalidation
invalidate_dte_for_invoice(rec) == rec # 0 /\ records[rec].sello

\* send_dte_invalidation up to DTEInvalidation.objects.create(status="ENVIANDO")
InvalidationCreate(t) ==
  LET s == th[t]
      rec == LatestRecord(s.i)
  IN
  /\ s.pc = "inv_prepare"
  /\ IF invalidate_dte_for_invoice(rec)
     THEN /\ invalidations' = Append(invalidations,
                [invoice |-> s.i, dte_record |-> rec, status |-> "ENVIANDO",
                 hacienda_state |-> "", codigoGeneracion |-> uuids + 1,
                 net |-> "none", http |-> 0])
          /\ uuids' = uuids + 1
          /\ Set(t, [s EXCEPT !.pc = "inv_post", !.rec = rec, !.ival = Len(invalidations) + 1])
     ELSE /\ Set(t, Respond("invalidate", s.i, 400))
          /\ UNCHANGED <<invalidations, uuids>>
  /\ UNCHANGED <<inv, records, counter, locks, now, ops, issued, restVars>>

\* send_dte_invalidation: the status and hacienda_state it gives a response
\* mutant: 403 is not told from the other client errors
InvalidationHttpClass_Only401(code) ==
  IF code = 401 THEN "NO_AUTENTICADO"
  ELSE IF code >= 500 THEN "ERROR_PUENTE"
  ELSE IF code >= 400 THEN REJECTED
  ELSE "body"

\* send_dte_invalidation: the tests of status_code made before the body is
\* looked at; "body" when none of them answers
InvalidationHttpClass(code) ==
  IF code \in {401, 403} THEN "NO_AUTENTICADO"
  ELSE IF code >= 500 THEN "ERROR_PUENTE"
  ELSE IF code >= 400 THEN REJECTED
  ELSE "body"

\* what the bridge can answer to an invalidation: the answers of Responses,
\* and client errors whose body reads as an acceptance
InvalidationResponses ==
  Responses \cup { HttpResponse(403, TRUE, BodyProcesado),
                   HttpResponse(404, TRUE, BodyProcesado),
                   HttpResponse(422, TRUE, BodyRejected) }

\* no invalidation URL is configured (DTE_API_INVALIDACION_URL and the base
\* URL are both empty): send_dte_invalidation makes no request
NotConfigured == [net |-> "unconfigured", code |-> 0, json |-> FALSE, body |-> NoBody]

\* what a call of send_dte_invalidation meets after it created its row
InvalidationAnswers == InvalidationResponses \cup {NotConfigured}

\* mutant: the invoice is flipped whatever the invalidation's outcome
FlipsInvoice_Always(status) == TRUE

\* send_dte_invalidation: the one branch that writes Invoice.INVALIDATED
FlipsInvoice(status) == status = APPROVED

InvalidationVerdict(resp) ==
  LET data == ResponseData(resp)
      isdict == data.kind = "dict"
      success == IF isdict THEN data.success ELSE "null"
      first == IF isdict THEN OrElse(data.rh, data.hr) ELSE NoHResp
      hresp == IF first.k = "dict" THEN first ELSE NoHResp
      estado_hacienda == GetEstado(hresp, "")
  IN
  IF resp.net = "unconfigured"
  THEN [status |-> "ERROR_CONFIG", hacienda_state |-> "ERROR_CONFIG"]
  ELSE IF resp.net = "error" THEN [status |-> PENDING, hacienda_state |-> "SIN_RESPUESTA"]
  ELSE IF InvalidationHttpClass(resp.code) # "body"
  THEN [status |-> InvalidationHttpClass(resp.code),
        hacienda_state |-> InvalidationHttpClass(resp.code)]
  ELSE IF success = "true" /\ estado_hacienda \in {"PROCESADO", "RECIBIDO"}
  THEN [status |-> APPROVED, hacienda_state |-> EstadoOr(estado_hacienda, "RECIBIDO")]
  ELSE IF success = "false"
  THEN [status |-> REJECTED, hacienda_state |-> EstadoOr(estado_hacienda, "RECHAZADO")]
  ELSE [status |-> PENDING, hacienda_state |-> EstadoOr(estado_hacienda, "DESCONOCIDO")]

\* the test of the URL, requests.post of the invalidation and
\* invalidation.save; net and http keep what the bridge answered
InvalidationPost(t) ==
  LET s == th[t]
  IN
  /\ s.pc = "inv_post"
  /\ \E resp \in InvalidationAnswers :
       LET v == InvalidationVerdict(resp)
       IN /\ invalidations' = [invalidations EXCEPT ![s.ival] =
                 [@ EXCEPT !.status = v.status, !.hacienda_state = v.hacienda_state,
                           !.net = resp.net, !.http = resp.code]]
          /\ IF FlipsInvoice(v.status)
             THEN Set(t, [s EXCEPT !.pc = "inv_flip"])
             ELSE Set(t, Respond("invalidate", s.i, IF v.status = PENDING THEN 202 ELSE 200))
  /\ UNCHANGED <<inv, records, counter, locks, now, uuids, ops, issued, restVars>>

\* invoice.dte_status = Invoice.INVALIDATED; invoice.save(update_fields=["dte_status"])
InvalidationFlip(t) ==
  LET s == th[t]
  IN
  /\ s.pc = "inv_flip"
  /\ Writable(t, s.i)
  /\ inv' = [inv EXCEPT ![s.i].dte_status = INVALIDATED]
  /\ Set(t, Respond("invalidate", s.i, 200))
  /\ UNCHANGED <<records, invalidations, counter, locks, now, uuids, ops, issued, restVars>>

(***************************************************************************)
(* connectivity: the sentinel                                              *)
(***************************************************************************)
\* what requests.get on a health URL gives: a status code, or 0 for a
\* RequestException
HealthAnswers == {0, 200, 204, 530}

\* _check_target: (ok, reason)
_check_target(url, answer) ==
  IF ~url THEN [ok |-> FALSE, reason |-> "not_configured"]
  ELSE IF answer = 0 THEN [ok |-> FALSE, reason |-> "network_error"]
  ELSE IF answer \in {200, 204} THEN [ok |-> TRUE, reason |-> "ok"]
  ELSE [ok |-> FALSE, reason |-> "status_530"]

\* an entry of CONNECTIVITY_STATUS; last_ok / last_error hold the number of
\* the poll that set them, 0 for None
InitEntry == [ok |-> FALSE, last_ok |-> 0, last_error |-> 0, reason |-> "init"]

\* _mark_status(key, ok, reason) during poll n
_mark_status(status, key, ok, reason, n) ==
  [status EXCEPT ![key] =
     [ok |-> ok, reason |-> reason,
      last_ok |-> IF ok THEN n ELSE @.last_ok,
      last_error |-> IF ok THEN @.last_error ELSE n]]

\* mutant: the previous api result is ignored
ApiRecovered_Forgetful(api_ok, last_api_ok) == api_ok

\* run_once: the condition under which it calls _handle_api_recovered
ApiRecovered(api_ok, last_api_ok) == api_ok /\ last_api_ok # "True"

\* the threads that call start() on the one CONNECTIVITY_SENTINEL
Callers == {"c1", "c2"}

\* mutant: a new sentinel holds an api result that was ok
NewSentinel_AlreadyOk(internet_url) ==
  [started |-> FALSE, internet_url |-> internet_url, last_api_ok |-> "True", polls |-> 0,
   status |-> [internet |-> InitEntry, api |-> InitEntry], hist |-> <<>>,
   loops |-> <<>>, callers |-> [c \in Callers |-> "idle"], starts |-> 0]

\* ConnectivitySentinel.__init__ and the module-level CONNECTIVITY_STATUS;
\* loops holds, per loop thread started, "idle" between two run_once or the
\* api result its running run_once holds; callers is where each caller of
\* start() stands
NewSentinel(internet_url) ==
  [started |-> FALSE, internet_url |-> internet_url, last_api_ok |-> "None", polls |-> 0,
   status |-> [internet |-> InitEntry, api |-> InitEntry], hist |-> <<>>,
   loops |-> <<>>, callers |-> [c \in Callers |-> "idle"], starts |-> 0]

\* start(): returns at once when already started, else starts the loop thread
SentinelStart ==
  /\ ~sen.started
  /\ sen' = [sen EXCEPT !.started = TRUE, !.loops = Append(@, "idle")]
  /\ UNCHANGED <<pipeVars, interpVars, doc>>

\* one run_once of the loop.  _handle_api_recovered calls the retry worker and
\* swallows what it raises; hist keeps, per poll, the api result and the
\* number of calls of autoresend_pending_invoices made during the poll
RunOnce ==
  /\ sen.started
  /\ sen.polls < MaxPolls
  /\ \E ia \in HealthAnswers, aa \in HealthAnswers :
       LET n == sen.polls + 1
           internet == _check_target(sen.internet_url, ia)
           api == _check_target(TRUE, aa)
           st1 == _mark_status(sen.status, "internet", internet.ok,
                               IF internet.ok THEN "none" ELSE internet.reason, n)
           st2 == _mark_status(st1, "api", api.ok, IF api.ok THEN "none" ELSE api.reason, n)
           calls == IF ApiRecovered(api.ok, sen.last_api_ok) THEN 1 ELSE 0
       IN sen' = [sen EXCEPT !.polls = n, !.status = st2,
                             !.last_api_ok = IF api.ok THEN "True" ELSE "False",
                             !.hist = Append(@, [api_ok |-> api.ok, autoresend |-> calls])]
  /\ UNCHANGED <<pipeVars, interpVars, doc>>

(***************************************************************************)
(* The clock                                                               *)
(***************************************************************************)
Tick ==
  /\ now < MaxTicks * DTE_AUTORETRY_BACKOFF_SECONDS
  /\ now' = now + DTE_AUTORETRY_BACKOFF_SECONDS
  /\ UNCHANGED <<dbVars, th, uuids, ops, issued, restVars>>

(***************************************************************************)
(* Specification of the pipeline with concurrent requests and jobs         *)
(***************************************************************************)
Init ==
  /\ InitPipe
  /\ NoInterp
  /\ sen = NewSentinel(TRUE)

\* the steps of the threads of T, and the clock
NextOf(T) ==
  \/ \E t \in T : InvoiceCreate(t)
  \/ \E t \in T : ResendInvoiceDte(t)
  \/ \E t \in T : BuildNumeroControl(t)
  \/ \E t \in T : SaveIdentifiers(t)
  \/ \E t \in T : CreateRecord(t)
  \/ \E t \in T : SendRaises(t)
  \/ \E t \in T : PostAndFinalizeRecord(t)
  \/ \E t \in T : MarkControlNumberProcessed(t)
  \/ \E t \in T : MarkInvoice(t)
  \/ \E t \in T : ReservePendingInvoices(t)
  \/ \E t \in T : ReserveCommit(t)
  \/ \E t \in T : AutoresendFinally(t)
  \/ \E t \in T : CfAutoresendPendingInvoices(t)
  \/ \E t \in T : CfAutoresendNext(t)
  \/ \E t \in T : DTEInvalidateView(t)
  \/ \E t \in T : InvalidationCreate(t)
  \/ \E t \in T : InvalidationPost(t)
  \/ \E t \in T : InvalidationFlip(t)
  \/ Tick

Next == NextOf(Threads)

Spec == Init /\ [][Next]_vars

(***************************************************************************)
(* Specification of the pipeline with one request or job at a time         *)
(***************************************************************************)
NextSeq == NextOf({"t1"})

SpecSeq == Init /\ [][NextSeq]_vars

(***************************************************************************)
(* Specification of the retry workers over a backlog: the database holds   *)
(* invoices whose first send was answered with HTTP 530, and only retry    *)
(* workers run.                                                            *)
(***************************************************************************)
\* the row and the record that a send on creation answered with 530 leaves
OfflineRow(code) ==
  [NewRow("CF", TRUE) EXCEPT
     !.numero_control = ControlNumber("01", 1), !.codigo_generacion = code,
     !.dte_send_attempts = 1, !.last_dte_error_code = "530", !.last_dte_sent_at = 0]

OfflineRecord(i, code) ==
  [invoice |-> i, status |-> PENDING, hacienda_state |-> "SIN_RESPUESTA",
   control_number |-> ControlNumber("01", 1), numeroControl |-> ControlNumber("01", 1),
   codigoGeneracion |-> code, sello |-> FALSE, answered |-> TRUE]

\* the database after n such invoices, with every thread idle
Backlog(n) ==
  /\ inv = [i \in Invoices |-> IF i <= n THEN OfflineRow(i) ELSE NoRow]
  /\ records = [k \in 1..n |-> OfflineRecord(k, k)]
  /\ invalidations = <<>>
  /\ counter = [k \in CounterKeys |-> 0]
  /\ locks = [i \in Invoices |-> "none"]
  /\ th = [t \in Threads |-> IdleThread]
  /\ now = 0
  /\ uuids = n
  /\ issued = [k \in 1..n |-> [key |-> "01", number |-> 1]]
  /\ doc = NoDoc

InitBacklog ==
  /\ \E n \in 1..Cardinality(Invoices) : Backlog(n)
  /\ ops = 0
  /\ NoInterp
  /\ sen = NewSentinel(TRUE)

NextWorkers ==
  \/ \E t \in Threads : ReservePendingInvoices(t)
  \/ \E t \in Threads : ReserveCommit(t)
  \/ \E t \in Threads : CreateRecord(t)
  \/ \E t \in Threads : SendRaises(t)
  \/ \E t \in Threads : PostAndFinalizeRecord(t)
  \/ \E t \in Threads : MarkControlNumberProcessed(t)
  \/ \E t \in Threads : MarkInvoice(t)
  \/ \E t \in Threads : AutoresendFinally(t)
  \/ Tick

SpecWorkers == InitBacklog /\ [][NextWorkers]_vars

(***************************************************************************)
(* Specification of concurrent runs of autoresend_pending_invoices of      *)
(* dte_cf_service over a backlog of one invoice                            *)
(***************************************************************************)
InitBacklogOfOne ==
  /\ Backlog(1)
  /\ ops = 0
  /\ NoInterp
  /\ sen = NewSentinel(TRUE)

NextCfWorkers ==
  \/ \E t \in Threads : CfAutoresendPendingInvoices(t)
  \/ \E t \in Threads : CfAutoresendNext(t)
  \/ \E t \in Threads : CreateRecord(t)
  \/ \E t \in Threads : SendRaises(t)
  \/ \E t \in Threads : PostAndFinalizeRecord(t)
  \/ \E t \in Threads : MarkControlNumberProcessed(t)
  \/ \E t \in Threads : MarkInvoice(t)

SpecCfWorkers == InitBacklogOfOne /\ [][NextCfWorkers]_vars

(***************************************************************************)
(* Specification of the two resends: over a backlog, the retry job of      *)
(* dte_cf_service and manual resends run side by side.                     *)
(***************************************************************************)
\* resend_dte_for_invoice: transmit_invoice_dte on the instance it is given
resend_dte_for_invoice(i, m) ==
  TransmitInvoiceDte(
    [IdleThread EXCEPT !.pc = "transmit", !.op = "resend", !.source = "manual_resend",
                       !.i = i, !.m = m],
    uuids + 1)

\* a call of resend_dte_for_invoice on an invoice loaded from the database
ResendDteForInvoice(t) ==
  /\ BeginOp(t)
  /\ \E i \in Invoices :
       /\ inv[i].exists
       /\ Call(t, resend_dte_for_invoice(i, Load(inv[i])))
  /\ ops' = ops + 1
  /\ UNCHANGED <<dbVars, now, issued, restVars>>

NextResend ==
  \/ \E t \in Threads : CfAutoresendPendingInvoices(t)
  \/ \E t \in Threads : CfAutoresendNext(t)
  \/ \E t \in Threads : ResendDteForInvoice(t)
  \/ \E t \in Threads : CreateRecord(t)
  \/ \E t \in Threads : PostAndKeepResponse(t)
  \/ \E t \in Threads : MarkControlNumberProcessed(t)
  \/ \E t \in Threads : MarkInvoice(t)

SpecResend == InitBacklogOfOne /\ [][NextResend]_vars

(***************************************************************************)
(* Specification of the counter: over a backlog of one invoice, creations  *)
(* and resends by two threads allocate and mark control numbers.           *)
(***************************************************************************)
NextCounter ==
  \/ \E t \in Threads : InvoiceCreate(t)
  \/ \E t \in Threads : ResendDteForInvoice(t)
  \/ \E t \in Threads : BuildNumeroControl(t)
  \/ \E t \in Threads : SaveIdentifiers(t)
  \/ \E t \in Threads : CreateRecord(t)
  \/ \E t \in Threads : PostAndFinalizeRecord(t)
  \/ \E t \in Threads : MarkControlNumberProcessed(t)
  \/ \E t \in Threads : MarkInvoice(t)

SpecCounter == InitBacklogOfOne /\ [][NextCounter]_vars

(***************************************************************************)
(* Specification of the fallback: the same, and the steps that follow the  *)
(* saving of the record may raise inside the try of the send function.     *)
(***************************************************************************)
\* mutant: the except branch leaves the record as it was saved
FallbackRecord_Untouched(r) == r

\* the except branch of the send function: what it writes to the record
FallbackRecord(r) ==
  [r EXCEPT !.status = PENDING, !.hacienda_state = "SIN_RESPUESTA", !.sello = FALSE]

\* the except branch of the send function: what it will write to the invoice
FallbackFinal == [status |-> PENDING, code |-> "unexpected_error", outage |-> FALSE]

\* _mark_control_number_processed raises: its transaction is rolled back and
\* the except branch of the send function runs
WatermarkRaises(t) ==
  LET s == th[t]
  IN
  /\ s.pc = "watermark"
  /\ records' = [records EXCEPT ![s.rec] = FallbackRecord(@)]
  /\ Set(t, [s EXCEPT !.pc = "mark", !.path = "fallback", !.fin = FallbackFinal])
  /\ UNCHANGED <<inv, invalidations, counter, locks, now, uuids, ops, issued, restVars>>

\* invoice.save raises in _mark_invoice_attempt, called inside the try (a
\* parsed response, an offline-like status): the instance already carries
\* the attempt, the row does not, and the except branch runs
MarkRaises(t) ==
  LET s == th[t]
  IN
  /\ s.pc = "mark"
  /\ s.path \in {"parsed", "offline"}
  /\ records' = [records EXCEPT ![s.rec] = FallbackRecord(@)]
  /\ Set(t, [s EXCEPT !.m = MarkAttempt(s.m, s.now_local, s.fin.status, s.fin.code),
                      !.path = "fallback", !.fin = FallbackFinal])
  /\ UNCHANGED <<inv, invalidations, counter, locks, now, uuids, ops, issued, restVars>>

NextFallback ==
  \/ NextCounter
  \/ \E t \in Threads : WatermarkRaises(t)
  \/ \E t \in Threads : MarkRaises(t)

SpecFallback == InitBacklogOfOne /\ [][NextFallback]_vars

(***************************************************************************)
(* Specification of the management command dte_autoresend: one process     *)
(* over a backlog.                                                         *)
(* The loop of _resend_pending reads the dte_status and the identifiers of *)
(* the invoices only: the attempt counters and the record rows are kept up *)
(* to MaxAttempts, so that the states of a call that goes on for ever are  *)
(* finitely many.                                                          *)
(***************************************************************************)
\* the row of an invoice after transmit_invoice_dte on it was answered resp
Attempted(row, resp) ==
  LET h == Handling(resp)
      m2 == MarkAttempt(Load(row), now, h.fin.status, h.fin.code)
  IN [SaveAttempt(row, m2) EXCEPT
        !.dte_send_attempts = IF row.dte_send_attempts < MaxAttempts THEN @
                              ELSE row.dte_send_attempts]

\* the record of that attempt
AttemptRecord(i, row, resp) ==
  LET h == Handling(resp)
  IN [invoice |-> i, status |-> h.rec.status, hacienda_state |-> h.rec.hacienda_state,
      control_number |-> row.numero_control, numeroControl |-> row.numero_control,
      codigoGeneracion |-> row.codigo_generacion, sello |-> h.rec.sello, answered |-> TRUE]

\* Command.handle: check_hacienda_online() answered true and
\* _resend_pending(batch_size) is called
CommandStart(t) ==
  /\ BeginOp(t)
  /\ \E batch_size \in 1 .. Cardinality(Invoices) :
       Set(t, [IdleThread EXCEPT !.pc = "command", !.op = "command", !.limit = batch_size])
  /\ ops' = ops + 1
  /\ UNCHANGED <<dbVars, now, uuids, issued, restVars>>

\* the top of the loop of _resend_pending: the transaction begins with the
\* locking SELECT of at most batch_size pending invoices; an empty list
\* ends the call
CommandSelect(t) ==
  LET s == th[t]
      pending_invoices ==
        Limit(OrderById({ i \in Invoices : HasIdentifiersFilter(inv[i]) /\ locks[i] = "none" }),
              s.limit)
  IN
  /\ s.pc = "command"
  /\ IF pending_invoices = <<>>
     THEN /\ Set(t, Return(s))
          /\ UNCHANGED locks
     ELSE /\ Set(t, [s EXCEPT !.pc = "transmit", !.batch = pending_invoices, !.k = 1])
          /\ locks' = [i \in Invoices |->
                         IF \E k \in DOMAIN pending_invoices : pending_invoices[k] = i
                         THEN t ELSE locks[i]]
  /\ UNCHANGED <<inv, records, invalidations, counter, now, uuids, ops, issued, restVars>>

\* transmit_invoice_dte on the next invoice of the batch
CommandTransmit(t) ==
  LET s == th[t] IN
  /\ s.pc = "transmit"
  /\ s.k <= Len(s.batch)
  /\ \E resp \in Responses :
       /\ inv' = [inv EXCEPT ![s.batch[s.k]] = Attempted(@, resp)]
       /\ records' = Limit(Append(records, AttemptRecord(s.batch[s.k], inv[s.batch[s.k]], resp)),
                           MaxAttempts)
  /\ Set(t, [s EXCEPT !.k = @ + 1])
  /\ UNCHANGED <<invalidations, counter, locks, now, uuids, ops, issued, restVars>>

\* the end of a turn: the transaction commits, and a batch shorter than
\* batch_size ends the call
CommandCommit(t) ==
  LET s == th[t] IN
  /\ s.pc = "transmit"
  /\ s.k > Len(s.batch)
  /\ locks' = [i \in Invoices |-> IF locks[i] = t THEN "none" ELSE locks[i]]
  /\ Set(t, IF Len(s.batch) < s.limit THEN Return(s)
            ELSE [s EXCEPT !.pc = "command", !.batch = <<>>, !.k = 0])
  /\ UNCHANGED <<inv, records, invalidations, counter, now, uuids, ops, issued, restVars>>

NextCommand ==
  \/ CommandStart("t1")
  \/ CommandSelect("t1")
  \/ CommandTransmit("t1")
  \/ CommandCommit("t1")

\* the process of the command keeps running
SpecCommand == InitBacklog /\ [][NextCommand]_vars /\ WF_vars(NextCommand)

(***************************************************************************)
(* Specification of the interpreter alone: every body of Bodies is an      *)
(* input, one step applies the interpreter.                                *)
(***************************************************************************)
InitInterp ==
  /\ InitPipe
  /\ sen = NewSentinel(TRUE)
  /\ ibody \in Bodies
  /\ iresult = NoResult

Interpret ==
  /\ iresult = NoResult
  /\ iresult' = interpret_dte_response(ibody)
  /\ UNCHANGED <<ibody, sen, pipeVars, doc>>

NextInterp == Interpret

SpecInterp == InitInterp /\ [][NextInterp]_vars

(***************************************************************************)
(* Specification of the sentinel: the health endpoints answer anything at  *)
(* every poll.                                                             *)
(***************************************************************************)
InitSentinel ==
  /\ InitPipe
  /\ NoInterp
  /\ \E url \in BOOLEAN : sen = NewSentinel(url)

NextSentinel ==
  \/ SentinelStart
  \/ RunOnce

SpecSentinel == InitSentinel /\ [][NextSentinel]_vars

(***************************************************************************)
(* Specification of the start of the sentinel: start() is called from two  *)
(* threads, statement by statement, and every loop thread it starts polls. *)
(***************************************************************************)
\* start(), 'if self._started: return': the caller returns, or goes on
StartCheck(c) ==
  /\ sen.callers[c] = "idle"
  /\ sen.starts < MaxStarts
  /\ sen' = [sen EXCEPT !.starts = @ + 1,
                        !.callers[c] = IF sen.started THEN "idle" ELSE "checked"]
  /\ UNCHANGED <<pipeVars, interpVars, doc>>

\* start(), 'self._started = True' and the start of the thread of _loop
StartThread(c) ==
  /\ sen.callers[c] = "checked"
  /\ sen' = [sen EXCEPT !.started = TRUE, !.loops = Append(@, "idle"),
                        !.callers[c] = "idle"]
  /\ UNCHANGED <<pipeVars, interpVars, doc>>

\* run_once of loop thread k, the two probes and their marks
RunOnceProbe(k) ==
  /\ k \in DOMAIN sen.loops
  /\ sen.loops[k] = "idle"
  /\ sen.polls < MaxPolls
  /\ \E ia \in HealthAnswers, aa \in HealthAnswers :
       LET n == sen.polls + 1
           internet == _check_target(sen.internet_url, ia)
           api == _check_target(TRUE, aa)
           st1 == _mark_status(sen.status, "internet", internet.ok,
                               IF internet.ok THEN "none" ELSE internet.reason, n)
           st2 == _mark_status(st1, "api", api.ok, IF api.ok THEN "none" ELSE api.reason, n)
       IN sen' = [sen EXCEPT !.polls = n, !.status = st2,
                             !.loops[k] = IF api.ok THEN "True" ELSE "False"]
  /\ UNCHANGED <<pipeVars, interpVars, doc>>

\* run_once of loop thread k, from the test of _last_api_ok to its end
RunOnceRecover(k) ==
  /\ k \in DOMAIN sen.loops
  /\ sen.loops[k] # "idle"
  /\ LET api_ok == sen.loops[k] = "True"
         calls == IF ApiRecovered(api_ok, sen.last_api_ok) THEN 1 ELSE 0
     IN sen' = [sen EXCEPT !.last_api_ok = sen.loops[k], !.loops[k] = "idle",
                           !.hist = Append(@, [api_ok |-> api_ok, autoresend |-> calls])]
  /\ UNCHANGED <<pipeVars, interpVars, doc>>

NextStart ==
  \/ \E c \in Callers : StartCheck(c)
  \/ \E c \in Callers : StartThread(c)
  \/ \E k \in 1 .. Cardinality(Callers) : RunOnceProbe(k)
  \/ \E k \in 1 .. Cardinality(Callers) : RunOnceRecover(k)

SpecStart == Init /\ [][NextStart]_vars

(***************************************************************************)
(* Specification of the loop thread of the sentinel: _loop statement by    *)
(* statement, with a run_once that may raise.  The loop reads neither the  *)
(* number of polls made nor the polls of the past: the poll number stops   *)
(* at MaxPolls and hist keeps the last MaxPolls polls, so that the states  *)
(* of a loop that goes on for ever are finitely many.                      *)
(***************************************************************************)
\* where run_once raises: nowhere, in the probe of internet, in the probe
\* of api.  What the retry worker raises is caught in _handle_api_recovered.
RaisePoints == {"none", "internet", "api"}

\* start() by its only caller: the loop thread is before its first run_once
LoopStart ==
  /\ ~sen.started
  /\ sen' = [sen EXCEPT !.started = TRUE, !.loops = Append(@, "first")]
  /\ UNCHANGED <<pipeVars, interpVars, doc>>

\* run_once of loop thread k up to the test of _last_api_ok.  An exception
\* in the first run_once leaves _loop, which ends the thread; in a later
\* one it reaches the except clause of the while loop.
LoopProbe(k) ==
  /\ k \in DOMAIN sen.loops
  /\ sen.loops[k] \in {"first", "idle"}
  /\ \E ia \in HealthAnswers, aa \in HealthAnswers, raises \in RaisePoints :
       LET n == IF sen.polls < MaxPolls THEN sen.polls + 1 ELSE sen.polls
           internet == _check_target(sen.internet_url, ia)
           api == _check_target(TRUE, aa)
           st1 == _mark_status(sen.status, "internet", internet.ok,
                               IF internet.ok THEN "none" ELSE internet.reason, n)
           st2 == _mark_status(st1, "api", api.ok, IF api.ok THEN "none" ELSE api.reason, n)
           after == IF sen.loops[k] = "first" THEN "dead" ELSE "raised"
       IN sen' = [sen EXCEPT
                    !.polls = n,
                    !.status = CASE raises = "none" -> st2
                                 [] raises = "internet" -> @
                                 [] raises = "api" -> st1,
                    !.loops[k] = IF raises = "none"
                                 THEN (IF api.ok THEN "True" ELSE "False")
                                 ELSE after]
  /\ UNCHANGED <<pipeVars, interpVars, doc>>

\* run_once of loop thread k from the test of _last_api_ok to its end, and
\* the sleep of the loop
LoopRecover(k) ==
  /\ k \in DOMAIN sen.loops
  /\ sen.loops[k] \in {"True", "False"}
  /\ LET api_ok == sen.loops[k] = "True"
         calls == IF ApiRecovered(api_ok, sen.last_api_ok) THEN 1 ELSE 0
         entry == [api_ok |-> api_ok, autoresend |-> calls]
     IN sen' = [sen EXCEPT !.last_api_ok = sen.loops[k], !.loops[k] = "idle",
                           !.hist = IF Len(@) < MaxPolls THEN Append(@, entry)
                                    ELSE Append(Tail(@), entry)]
  /\ UNCHANGED <<pipeVars, interpVars, doc>>

\* the except clause of the while loop logs the exception, and the loop
\* sleeps and goes on
LoopCaught(k) ==
  /\ k \in DOMAIN sen.loops
  /\ sen.loops[k] = "raised"
  /\ sen' = [sen EXCEPT !.loops[k] = "idle"]
  /\ UNCHANGED <<pipeVars, interpVars, doc>>

NextLoop ==
  \/ LoopStart
  \/ LoopProbe(1)
  \/ LoopRecover(1)
  \/ LoopCaught(1)

\* the loop thread keeps running while it has a statement to run
SpecLoop == InitSentinel /\ [][NextLoop]_vars /\ WF_vars(NextLoop)

(***************************************************************************)
(* Specification of a recovery: the database holds a backlog, the last     *)
(* poll of the sentinel saw the api target down, and from now on the api   *)
(* target answers ok at every poll.  The sentinel's thread is t1.          *)
(***************************************************************************)
InitRecovery ==
  /\ \E n \in 1..Cardinality(Invoices) : Backlog(n)
  /\ ops = 0
  /\ NoInterp
  /\ sen = [NewSentinel(TRUE) EXCEPT !.started = TRUE, !.last_api_ok = "False",
                                     !.loops = <<"idle">>]

\* run_once of a poll in which the api target answers ok.  When the poll
\* before did not, _handle_api_recovered calls autoresend_pending_invoices(),
\* which runs in the sentinel's thread with the default limit; the times in
\* CONNECTIVITY_STATUS are not kept.
RunOnceApiOk ==
  LET t == "t1"
      limit == DTE_AUTORETRY_BATCH_SIZE
      ids == Limit(OrderById(SelectSkipLocked(t, DTE_AUTORETRY_BACKOFF_SECONDS)), limit)
  IN
  /\ th[t].pc = "idle"
  /\ IF ApiRecovered(TRUE, sen.last_api_ok)
     THEN /\ locks' = [i \in Invoices |-> IF i \in Range(ids) THEN t ELSE locks[i]]
          /\ Set(t, [IdleThread EXCEPT !.pc = "reserve_commit", !.op = "auto", !.limit = limit,
                       !.batch = [k \in DOMAIN ids |-> [i |-> ids[k], m |-> Load(inv[ids[k]])]]])
     ELSE UNCHANGED <<locks, th>>
  /\ sen' = [sen EXCEPT !.last_api_ok = "True",
                        !.status.api.ok = TRUE, !.status.api.reason = "none"]
  /\ UNCHANGED <<inv, records, invalidations, counter, now, uuids, ops, issued, interpVars, doc>>

NextRecovery ==
  \/ RunOnceApiOk
  \/ ReserveCommit("t1")
  \/ CreateRecord("t1")
  \/ PostAndFinalizeRecord("t1")
  \/ MarkControlNumberProcessed("t1")
  \/ MarkInvoice("t1")
  \/ AutoresendFinally("t1")
  \/ Tick

\* the sentinel keeps polling, the worker keeps running and time passes
SpecRecovery == InitRecovery /\ [][NextRecovery]_vars /\ WF_vars(NextRecovery)

(***************************************************************************)
(* Amounts of the payload.  A Decimal is an integer number of a fixed      *)
(* unit: amounts of money are in cents, rates in hundredths.  The quotient *)
(* of a Decimal division has 28 significant digits in Python; here it      *)
(* keeps DivisionScale units per unit of money, which is what integers of  *)
(* 32 bits leave room for.                                                 *)
(***************************************************************************)
IVA_RATE == 13
ONE == 100
DivisionScale == 10000

\* Decimal.__truediv__ under the default context: n / d rounded half-even
DecimalDivide(n, d) ==
  LET q == n \div d
      r == n % d
  IN IF 2 * r > d \/ (2 * r = d /\ q % 2 = 1) THEN q + 1 ELSE q

\* mutant: quantize rounds down
_round_2_Down(value, units) == value \div units

\* _round_2: value.quantize(Decimal("0.01"), ROUND_HALF_UP), of a value that
\* is not negative and counts units of 1/units of a cent; the result in cents
_round_2(value, units) == (2 * value + units) \div (2 * units)

\* split_gross_amount_with_tax(gross), gross in cents: (base, iva) in cents
split_gross_amount_with_tax(gross) ==
  LET gross_dec == gross
      base_unrounded == DecimalDivide(gross_dec * DivisionScale, ONE + IVA_RATE)
      iva_unrounded == base_unrounded * IVA_RATE
      iva == _round_2(iva_unrounded, DivisionScale)
      base == gross_dec - iva
  IN [base |-> base, iva |-> iva]

\* InvoiceItem.unit_price, in cents: every price up to MaxUnitPrice, and 113.00
UnitPrices == (0 .. MaxUnitPrice) \cup {11300}

\* send_cf_dte_for_invoice: one turn of the loop over the items
AddLineOf(flags) ==
  /\ ~doc.built
  /\ doc.n < MaxLines
  /\ \E unit_price \in UnitPrices, quantity \in 1 .. MaxQuantity, is_no_sujeta \in flags :
       LET gross_line == quantity * unit_price
           split == split_gross_amount_with_tax(gross_line)
       IN doc' = [doc EXCEPT !.n = @ + 1,
                             !.total_base = @ + split.base,
                             !.total_iva = @ + split.iva,
                             !.total_gross = @ + gross_line,
                             !.no_sujeta = IF is_no_sujeta THEN @ + gross_line ELSE @]
  /\ UNCHANGED <<pipeVars, interpVars, sen>>

\* a line of an invoice none of whose items is flagged is_no_sujeta
AddLine == AddLineOf({FALSE})

\* a line whose item may be flagged is_no_sujeta
AddItem == AddLineOf(BOOLEAN)

\* send_cf_dte_for_invoice after the loop: the totals are rounded and
\* monto_total_operacion is total_gross.  An invoice without items never gets
\* here.
BuildResumen ==
  /\ ~doc.built
  /\ doc.n >= 1
  /\ doc' = [doc EXCEPT !.total_base = _round_2(@, 1),
                        !.total_iva = _round_2(@, 1),
                        !.total_gross = _round_2(@, 1),
                        !.monto_total_operacion = _round_2(doc.total_gross, 1),
                        !.totalGravada = _round_2(doc.total_gross, 1),
                        !.totalNoSuj = 0,
                        !.built = TRUE]
  /\ UNCHANGED <<pipeVars, interpVars, sen>>

NextTax ==
  \/ AddLine
  \/ BuildResumen

SpecTax == Init /\ [][NextTax]_vars

\* the same with items flagged is_no_sujeta
NextItems ==
  \/ AddItem
  \/ BuildResumen

SpecItems == Init /\ [][NextItems]_vars

(***************************************************************************)
(* Properties                                                              *)
(***************************************************************************)
\* the polls j after poll k up to which api stayed ok since poll k
StaysOkSince(k, j) == \A l \in k..j : sen.hist[l].api_ok

IssuedFor(key) == { k \in DOMAIN issued : issued[k].key = key }

\* C1: for every key, no two calls of the allocator return the same number,
\* and the numbers returned are the contiguous run that starts at the stored
\* last_number + 1 (the counters start at 0, so the run starts at 1).
C1_AllocatorUniqueContiguous ==
  \A key \in CounterKeys :
    /\ \A a, b \in IssuedFor(key) : a # b => issued[a].number # issued[b].number
    /\ { issued[k].number : k \in IssuedFor(key) } = 1..Cardinality(IssuedFor(key))

HasIdentifiers(row) == row.numero_control # NoControl /\ row.codigo_generacion # 0

\* C2: once an invoice has a control number and a generated code, the stored
\* values never change, and every record an attempt creates from then on
\* carries exactly those two values (the record holds the payload's
\* identificacion).
C2_IdentifiersReused ==
  [][\A i \in Invoices :
       HasIdentifiers(inv[i]) =>
         /\ inv'[i].numero_control = inv[i].numero_control
         /\ inv'[i].codigo_generacion = inv[i].codigo_generacion
         /\ \A k \in DOMAIN records' :
              (k \notin DOMAIN records /\ records'[k].invoice = i) =>
                /\ records'[k].numeroControl = inv[i].numero_control
                /\ records'[k].control_number = inv[i].numero_control
                /\ records'[k].codigoGeneracion = inv[i].codigo_generacion]_vars

LegalTransitions ==
  { <<PENDING, APPROVED>>, <<PENDING, REJECTED>>, <<APPROVED, INVALIDATED>> }

\* C3: under every interleaving, dte_status of an invoice changes only along
\* PENDIENTE -> ACEPTADO, PENDIENTE -> RECHAZADO and ACEPTADO -> INVALIDADO.
C3_StatusTransitions ==
  [][\A i \in Invoices :
       (inv[i].exists /\ inv'[i].dte_status # inv[i].dte_status) =>
         <<inv[i].dte_status, inv'[i].dte_status>> \in LegalTransitions]_vars

\* the invoices a retry worker has reserved and not yet released: the rows
\* its selection locked, then the current and the remaining ones of its batch
Held(t) ==
  LET s == th[t]
  IN IF s.pc = "reserve_commit" THEN { s.batch[k].i : k \in DOMAIN s.batch }
     ELSE IF s.op = "auto" /\ s.pc # "idle"
     THEN { s.batch[k].i : k \in { j \in DOMAIN s.batch : j >= s.k } }
     ELSE {}

\* C4: two retry workers never hold the same invoice: the sets of invoices
\* two concurrent runs have reserved are disjoint, and while one run holds
\* an invoice the selection of any other run returns no row for it.
C4_ReservationsDisjoint ==
  \A t \in Threads : \A u \in Threads \ {t} :
    /\ Held(t) \cap Held(u) = {}
    /\ Held(t) \cap SelectSkipLocked(u, DTE_AUTORETRY_BACKOFF_SECONDS) = {}

\* whether the row would be selected but for its reservation
Retryable(row) ==
  /\ row.exists
  /\ row.dte_status = PENDING
  /\ row.last_dte_sent_at # NoTime
  /\ row.last_dte_sent_at <= now - DTE_AUTORETRY_BACKOFF_SECONDS

\* two runs race for invoice 1 alone: one holds it and is sending it, the
\* selection of the other has come back empty
C4_Witness ==
  \E t \in Threads : \E u \in Threads \ {t} :
    /\ Held(t) = {1}
    /\ th[t].pc = "post"
    /\ Retryable(inv[1])
    /\ ~inv[2].exists
    /\ th[u].pc = "reserve_commit"
    /\ th[u].batch = <<>>

\* C6: when the bridge answers a send with a status >= 500 (530 included),
\* the attempt ends with the record PENDIENTE / SIN_RESPUESTA, the invoice
\* PENDIENTE, last_dte_error_code the status code as a string, and a
\* control number and a generated code stored on the invoice.
C6_OfflineStatusLeavesPending ==
  [][\A t \in Threads :
       (th[t].pc = "mark" /\ th[t].http >= 500 /\ th'[t].pc # "mark") =>
         LET s == th[t]
             r == records'[s.rec]
             row == inv'[s.i]
         IN /\ r.status = "PENDIENTE"
            /\ r.hacienda_state = "SIN_RESPUESTA"
            /\ row.dte_status = "PENDIENTE"
            /\ row.last_dte_error_code = CodeStr(s.http)
            /\ HasIdentifiers(row)]_vars

\* an attempt answered 500 has ended: the invoice and its record as C6 says
C6_Witness ==
  \E i \in Invoices, k \in DOMAIN records :
    /\ \A t \in Threads : th[t].pc = "idle"
    /\ records[k].invoice = i
    /\ records[k].status = "PENDIENTE"
    /\ inv[i].last_dte_error_code = "500"
    /\ inv[i].dte_status = "PENDIENTE"
    /\ HasIdentifiers(inv[i])

\* C7: a record is ENVIANDO only while the send that created it is at its
\* network call; once the send has moved on, whatever the path, its status
\* is ACEPTADO, RECHAZADO or PENDIENTE, and no invoice status is ENVIANDO.
C7_RecordsFinalized ==
  /\ \A k \in DOMAIN records :
       IF \E t \in Threads : th[t].pc = "post" /\ th[t].rec = k
       THEN records[k].status = "ENVIANDO"
       ELSE records[k].status \in {"ACEPTADO", "RECHAZADO", "PENDIENTE"}
  /\ \A i \in Invoices : inv[i].dte_status \in {PENDING, APPROVED, REJECTED, INVALIDATED}

\* a send whose response handling raised has finalized its record
C7_Witness ==
  \E t \in Threads :
    /\ th[t].pc = "mark"
    /\ th[t].path = "fallback"
    /\ records[th[t].rec].status = "PENDIENTE"
    /\ records[th[t].rec].hacienda_state = "SIN_RESPUESTA"

\* the interpreter has run on a body with the given success member
Interpreted(success) ==
  /\ iresult # NoResult
  /\ ibody.kind = "dict"
  /\ ibody.success = success

\* the nested authority response of a success = true body
SuccessHResp == OrElse(ibody.rh, ibody.hr)

\* the descriptions of DescStrings that trim to RECIBIDO
TrimsToRecibido == { RECIBIDO_CHARS, <<" ">> \o RECIBIDO_CHARS \o <<"\n">> }

\* the descriptions of DescStrings that trim to RECIBIDO once upper-cased
UpperTrimsToRecibido ==
  TrimsToRecibido
    \cup { <<"r", "e", "c", "i", "b", "i", "d", "o">>,
           <<"R", "e", "c", "i", "b", "i", "d", "o", " ">> }

StatusAccepts == GetEstado(SuccessHResp, "") \in {"PROCESADO", "RECIBIDO"}

DescIn(S) ==
  /\ SuccessHResp.k = "dict"
  /\ SuccessHResp.desc.t = "str"
  /\ SuccessHResp.desc.s \in S

SuccessRaises ==
  \/ SuccessHResp.k = "str"
  \/ /\ ~StatusAccepts
     /\ SuccessHResp.k = "dict"
     /\ SuccessHResp.desc.t \in {"null", "num"}

FailureHResp ==
  IF ibody.error.k = "dict" THEN OrElse(ibody.error.rh, ibody.error.hr)
  ELSE [k |-> "empty", estado |-> ABSENT, desc |-> [t |-> "absent", s |-> <<>>]]

\* the authority gave a verdict: its response carries a status or a description
HasVerdict ==
  /\ FailureHResp.k = "dict"
  /\ FailureHResp.estado # ABSENT \/ FailureHResp.desc.t # "absent"

\* C9: on success = false the result is RECHAZADO with the authority's own
\* status only when the nested authority response carries a status or a
\* description; without a verdict it is PENDIENTE / SIN_RESPUESTA.
C9_RejectedOnlyWithVerdict ==
  Interpreted("false") =>
    IF HasVerdict
    THEN iresult.raised \/ iresult.interno = "RECHAZADO"
    ELSE iresult = Returned("PENDIENTE", "SIN_RESPUESTA")

\* C10: the interpreter is total: it never raises and yields ACEPTADO,
\* RECHAZADO or PENDIENTE; a body that has neither success = true nor
\* success = false, whatever its shape, gives PENDIENTE / SIN_RESPUESTA.
C10_TotalAndPendingByDefault ==
  iresult # NoResult =>
    /\ ~iresult.raised
    /\ iresult.interno \in {"ACEPTADO", "RECHAZADO", "PENDIENTE"}
    /\ (ibody.kind # "dict" \/ ibody.success \notin {"true", "false"}) =>
         iresult = Returned("PENDIENTE", "SIN_RESPUESTA")

\* thread t takes a new request or job in this step
Serves(t) == BeginOp(t) /\ ops' = ops + 1

\* the operation and the invoice of the request a thread is serving, or has
\* just answered
Req(s) ==
  IF s.pc = "idle" THEN [op |-> s.resp.op, i |-> s.resp.i] ELSE [op |-> s.op, i |-> s.i]

\* C11: a manual resend of an invoice whose dte_status is not PENDIENTE is
\* answered 400 at once: the request goes no further (no network call), and
\* the invoices, the records, the counters and the identifiers drawn are
\* left as they were.
C11_ResendOfNonPendingRefused ==
  [][\A t \in Threads :
       LET r == Req(th'[t])
       IN (Serves(t) /\ r.op = "manual" /\ inv[r.i].dte_status # PENDING) =>
            /\ th'[t].pc = "idle"
            /\ th'[t].resp.status = 400
            /\ UNCHANGED <<inv, records, counter, issued, uuids>>]_vars

\* a resend of an invoice that is ACEPTADO or RECHAZADO has been answered 400
C11_Witness ==
  \E t \in Threads :
    /\ th[t].pc = "idle"
    /\ th[t].resp.op = "manual"
    /\ th[t].resp.status = 400
    /\ inv[th[t].resp.i].dte_status \in {APPROVED, REJECTED}

\* the row satisfies the backoff rule: never sent, or last sent a backoff
\* window ago or earlier
BackoffElapsed(row) ==
  \/ row.last_dte_sent_at = NoTime
  \/ row.last_dte_sent_at <= now - DTE_AUTORETRY_BACKOFF_SECONDS

\* C12: every invoice of the batch a retry worker transmits was, when the
\* worker selected it, PENDIENTE, with a control number and a generated code,
\* and never sent or last sent a backoff window ago; the batch is in
\* ascending id order and no longer than the limit of the call.
C12_RetrySelection ==
  \A t \in Threads :
    LET s == th[t]
    IN s.op = "auto" =>
         /\ Len(s.batch) <= s.limit
         /\ \A a, b \in DOMAIN s.batch : a < b => s.batch[a].i < s.batch[b].i
         /\ \A k \in DOMAIN s.batch :
              /\ s.batch[k].m.row.dte_status = PENDING
              /\ HasIdentifiers(s.batch[k].m.row)
              /\ BackoffElapsed(s.batch[k].m.row)

\* the latest record of invoice i carries a received seal
HasSeal(i) == LatestRecord(i) # 0 /\ records[LatestRecord(i)].sello

C14_InvalidatedOnlyByAcceptedInvalidation ==
  [][\A i \in Invoices :
       /\ (inv'[i].dte_status = INVALIDATED /\ inv[i].dte_status # INVALIDATED) =>
            \E t \in Threads :
              /\ th[t].pc = "inv_flip"
              /\ th'[t].pc = "idle"
              /\ invalidations[th[t].ival].invoice = i
              /\ invalidations[th[t].ival].status = APPROVED
       /\ \A t \in Threads :
            (/\ th[t].pc = "inv_post"
             /\ th'[t] # th[t]
             /\ th[t].i = i
             /\ invalidations'[th[t].ival].status # APPROVED) =>
              /\ th'[t].pc = "idle"
              /\ inv'[i].dte_status = inv[i].dte_status]_vars

\* an invoice has been invalidated by an invalidation classified ACEPTADO
C14_Witness ==
  \E k \in DOMAIN invalidations :
    /\ invalidations[k].status = APPROVED
    /\ inv[invalidations[k].invoice].dte_status = INVALIDATED
    /\ \A t \in Threads : th[t].pc = "idle"

\* C15: the invalidation classifies the HTTP status before the body: 401 and
\* 403 give NO_AUTENTICADO, 500 and above give ERROR_PUENTE, the other
\* statuses from 400 give RECHAZADO, only a status below 400 can give
\* ACEPTADO, and in the first three cases the request ends with the invoices
\* unchanged.
C15_InvalidationStatusBeforeBody ==
  [][\A t \in Threads :
       (th[t].pc = "inv_post" /\ th'[t] # th[t]) =>
         LET row == invalidations'[th[t].ival]
             answered == row.net = "ok"
         IN /\ (answered /\ row.http \in {401, 403}) => row.status = "NO_AUTENTICADO"
            /\ (answered /\ row.http >= 500) => row.status = "ERROR_PUENTE"
            /\ (answered /\ row.http >= 400 /\ row.http < 500 /\ row.http \notin {401, 403})
                 => row.status = REJECTED
            /\ (answered /\ row.http >= 400) => (inv' = inv /\ th'[t].pc = "idle")
            /\ row.status = APPROVED => (answered /\ row.http < 400)]_vars

\* the bridge has answered an invalidation with 403: it is NO_AUTENTICADO, the
\* request has ended and the invoice is still ACEPTADO
C15_Witness ==
  \E k \in DOMAIN invalidations :
    /\ invalidations[k].http = 403
    /\ invalidations[k].status = "NO_AUTENTICADO"
    /\ inv[invalidations[k].invoice].dte_status = APPROVED
    /\ \A t \in Threads : th[t].pc = "idle"

\* tax is G / 1.13 * 0.13 rounded half-up to the cent: the cent amount t with
\* t - 1/2 <= 13 G / 113 < t + 1/2
IsTaxOf(tax, G) ==
  /\ 2 * 113 * tax <= 2 * 13 * G + 113
  /\ 2 * 13 * G + 113 < 2 * 113 * (tax + 1)

\* C16: for every line, the tax that split_gross_amount_with_tax returns is
\* G / 1.13 * 0.13 rounded half-up to two decimals and the base is G - tax, so
\* that base + tax = G for the line; and the totals of the document satisfy
\* total_base + total_iva = total_gross after every line and after the final
\* rounding, where monto_total_operacion is total_gross.
C16_SplitAddsUpToGross ==
  [][/\ doc'.n = doc.n + 1 =>
          LET G == doc'.total_gross - doc.total_gross
              tax == doc'.total_iva - doc.total_iva
              base == doc'.total_base - doc.total_base
          IN /\ IsTaxOf(tax, G)
             /\ base = G - tax
             /\ base + tax = G
     /\ doc'.total_base + doc'.total_iva = doc'.total_gross
     /\ doc'.built => doc'.monto_total_operacion = doc'.total_base + doc'.total_iva]_vars

\* a document of one line of 113.00 has been built: base 100.00, tax 13.00
\* and monto_total_operacion 113.00
C16_Witness ==
  /\ doc.built
  /\ doc.n = 1
  /\ doc.total_gross = 11300
  /\ doc.total_base = 10000
  /\ doc.total_iva = 1300
  /\ doc.monto_total_operacion = 11300

\* the positions of an attempt inside the send function before its post
BeforePost == {"alloc", "save_ids", "create_record"}

\* C17: whatever happens to an attempt before its network call, the attempt
\* either goes on towards the post or ends in the marking of the invoice as
\* PENDIENTE with last_dte_error_code "unexpected_error"; it never leaves the
\* pipeline any other way, and no exception reaches the caller.
C17_ExceptionsCaughtAtBoundary ==
  [][\A t \in Threads :
       (th[t].pc \in BeforePost /\ th'[t] # th[t]) =>
         \/ th'[t].pc \in BeforePost \cup {"post"}
         \/ /\ th'[t].pc = "mark"
            /\ th'[t].fin.status = PENDING
            /\ th'[t].fin.code = "unexpected_error"]_vars

\* the error codes of the two validation failures of transmit_invoice_dte
ValidationCodes == {"no_items", "missing_identifiers"}

\* C18: an attempt that fails validation (no items, or identifiers required
\* and missing) allocates no control number, creates no record and assigns no
\* identifier, from its start to the marking of the invoice; and the retry
\* worker never selects an invoice whose last attempt failed validation.
C18_ValidationFailureNotRetried ==
  [][\A t \in Threads :
       /\ (th'[t].pc = "mark" /\ th'[t].path \in ValidationCodes) =>
            UNCHANGED <<records, counter, issued>>
       /\ (th[t].pc = "mark" /\ th[t].path \in ValidationCodes /\ th'[t] # th[t]) =>
            /\ UNCHANGED <<records, counter, issued>>
            /\ inv'[th[t].i].numero_control = inv[th[t].i].numero_control
            /\ inv'[th[t].i].codigo_generacion = inv[th[t].i].codigo_generacion
       /\ (th[t].pc = "idle" /\ th'[t].pc = "reserve_commit") =>
            \A k \in DOMAIN th'[t].batch :
              inv[th'[t].batch[k].i].last_dte_error_code \notin ValidationCodes]_vars

\* thread t has an attempt for invoice i in flight: it is inside the send
\* function and the attempt's record is not finalized yet
InFlight(t, i) == th[t].pc \in BeforePost \cup {"post"} /\ th[t].i = i

\* C19: no two attempts for the same invoice are in flight at the same time.
C19_AttemptsOfAnInvoiceSequential ==
  \A i \in Invoices : \A t \in Threads : \A u \in Threads :
    (InFlight(t, i) /\ InFlight(u, i)) => t = u

\* C20: when the send of an invoice creation or of a manual resend ends
\* pending because of an outage, the invoice is kept and the handler answers
\* 202.
C20_OutageAnswered202 ==
  [][\A t \in Threads :
       (/\ th[t].pc = "mark"
        /\ th[t].fin.outage
        /\ th[t].op \in {"create", "manual"}
        /\ th'[t] # th[t]) =>
         /\ th'[t].pc = "idle"
         /\ th'[t].resp.status = 202
         /\ inv'[th[t].i].exists
         /\ inv'[th[t].i].dte_status = PENDING]_vars

\* invoice i is PENDIENTE with its identifiers and has been sent once
AwaitsRetry(i) ==
  /\ inv[i].exists
  /\ inv[i].dte_status = PENDING
  /\ inv[i].numero_control # NoControl
  /\ inv[i].codigo_generacion # 0
  /\ inv[i].dte_send_attempts = 1

\* C21: once the api target has recovered and stays reachable, every invoice
\* that is PENDIENTE with its identifiers is eventually sent again by the
\* worker that the sentinel starts.
C21_RecoveryRetransmitsEveryPending ==
  \A i \in Invoices : AwaitsRetry(i) ~> (inv[i].dte_send_attempts > 1)

\* the step in which the retry worker of thread t returns
WorkerReturns(t) == th[t].op = "auto" /\ th[t].pc # "idle" /\ th'[t].pc = "idle"

\* another thread than t holds a reservation of invoice i that it has stored
\* and not yet given back
ReservedByAnother(t, i) ==
  \E u \in Threads \ {t} :
    /\ th'[u].op = "auto"
    /\ th'[u].pc \notin {"idle", "reserve_commit"}
    /\ \E j \in DOMAIN th'[u].batch : j >= th'[u].k /\ th'[u].batch[j].i = i

\* C22 as stated: the row lock that the retry worker took on an invoice is
\* released only with dte_is_sending = True stored on it, and when the worker
\* returns every invoice of its batch has dte_is_sending = False.
C22_AsStated ==
  [][\A t \in Threads :
       /\ \A i \in Invoices :
            (locks[i] = t /\ locks'[i] # t) => inv'[i].dte_is_sending
       /\ WorkerReturns(t) =>
            \A k \in DOMAIN th[t].batch : ~inv'[th[t].batch[k].i].dte_is_sending]_vars

\* C22, amended: the row lock is released only with dte_is_sending = True
\* stored; the step that ends the turn of an invoice of the batch stores
\* dte_is_sending = False on it, whether its call succeeded, ended pending or
\* raised; and when the worker returns, an invoice of its batch has
\* dte_is_sending = True only if another run has reserved it since.
C22_Amended ==
  [][\A t \in Threads :
       /\ \A i \in Invoices :
            (locks[i] = t /\ locks'[i] # t) => inv'[i].dte_is_sending
       /\ (th[t].op = "auto" /\ th[t].pc = "returned" /\ th'[t] # th[t]) =>
            ~inv'[th[t].i].dte_is_sending
       /\ (th[t].op = "auto" /\ th[t].pc \notin {"idle", "reserve_commit", "returned"}
           /\ th'[t] # th[t]) =>
            th'[t].pc # "idle"
       /\ WorkerReturns(t) =>
            \A k \in DOMAIN th[t].batch :
              inv'[th[t].batch[k].i].dte_is_sending => ReservedByAnother(t, th[t].batch[k].i)]_vars

\* a worker has returned after a batch of two invoices, one of whose calls
\* raised, and no invoice is marked as being sent
C22_Witness ==
  \E t \in Threads :
    /\ th[t].pc = "idle"
    /\ \A i \in Invoices : inv[i].exists /\ ~inv[i].dte_is_sending
    /\ \E i \in Invoices : inv[i].dte_send_attempts > 1
    /\ \E i \in Invoices : inv[i].dte_send_attempts = 1
    /\ \A u \in Threads : th[u].pc = "idle"
    /\ ops > 0

\* C23: a worker whose pipeline call for an invoice has ended, raised or not,
\* turns to the next invoice of its batch and calls the pipeline for it, and
\* leaves its loop only after the last one; the value it then returns is the
\* number of invoices of the batch whose call did not raise.
C23_BatchSurvivesRaisingCall ==
  [][\A t \in Threads :
       (th[t].op \in Workers /\ th'[t] # th[t]) =>
         LET s == th[t]
             n == Len(s.batch)
         IN /\ (s.pc = "returned" /\ s.k < n) =>
                 /\ th'[t].op = s.op
                 /\ th'[t].k = s.k + 1
                 /\ th'[t].i = s.batch[s.k + 1].i
            /\ (s.pc \notin {"returned", "reserve_commit"}) => th'[t].pc # "idle"
            /\ th'[t].pc = "idle" =>
                 /\ th'[t].resp.ret + th'[t].resp.raised = n
                 /\ th'[t].resp.raised =
                      s.raised + (IF n > 0 /\ s.path = "raised" THEN 1 ELSE 0)]_vars

\* a worker has returned 1 after a batch of two invoices: the call for the
\* first invoice raised, the second invoice was sent
C23_Witness ==
  \E t \in Threads :
    /\ th[t].pc = "idle"
    /\ th[t].resp.op = "auto"
    /\ th[t].resp.ret = 1
    /\ th[t].resp.raised = 1
    /\ inv[1].dte_send_attempts = 1
    /\ inv[2].dte_send_attempts = 2

\* the sequence number of a control number
SequenceOf(numero_control) == numero_control[4]

\* C24: when an attempt ends with the invoice ACEPTADO, the watermark of the
\* invoice's counter key is at least the sequence number of the invoice's
\* control number.
C24_WatermarkCoversAccepted ==
  [][\A t \in Threads :
       (/\ th[t].pc = "mark"
        /\ th[t].fin.status = APPROVED
        /\ th'[t] # th[t]) =>
         counter'[TipoDte(inv'[th[t].i].doc_type)]
           >= SequenceOf(inv'[th[t].i].numero_control)]_vars

OutagePaths == {"network_error", "offline"}

\* C26: a send that fails on the network and a send answered with an
\* offline-like status end alike: the response is not interpreted, the record
\* is finalized PENDIENTE / SIN_RESPUESTA, the invoice is stored PENDIENTE
\* with one more attempt than the instance of the attempt had and the time
\* of the attempt, and the outage is flagged on the instance; only the error
\* code tells them apart.
C26_NetworkFailureLikeOfflineStatus ==
  [][\A t \in Threads :
       /\ (/\ th[t].pc = "post"
           /\ th'[t] # th[t]
           /\ (th'[t].http = 0 \/ _is_offline_status(th'[t].http))) =>
            /\ th'[t].path = (IF th'[t].http = 0 THEN "network_error" ELSE "offline")
            /\ th'[t].pc = "mark"
            /\ th'[t].fin = [status |-> PENDING, outage |-> TRUE,
                             code |-> IF th'[t].http = 0 THEN "network_error"
                                      ELSE CodeStr(th'[t].http)]
            /\ records'[th[t].rec].status = PENDING
            /\ records'[th[t].rec].hacienda_state = "SIN_RESPUESTA"
            /\ counter' = counter
       /\ (th[t].pc = "mark" /\ th[t].path \in OutagePaths /\ th'[t] # th[t]) =>
            LET i == th[t].i
            IN /\ inv'[i].dte_status = PENDING
               /\ inv'[i].dte_send_attempts = th[t].m.row.dte_send_attempts + 1
               /\ inv'[i].last_dte_sent_at = th[t].now_local
               /\ inv'[i].last_dte_error_code = th[t].fin.code
               /\ th'[t].pc = "returned" => th'[t].m.pending_due_to_outage]_vars

\* two attempts of an invoice have ended, the first on an offline-like status
\* and the second on a network failure, and both left it PENDIENTE
C26_Witness ==
  \E i \in Invoices :
    /\ inv[i].dte_status = PENDING
    /\ inv[i].dte_send_attempts = 2
    /\ inv[i].last_dte_error_code = "network_error"
    /\ \E j \in DOMAIN records, k \in DOMAIN records :
         /\ j < k
         /\ records[j].invoice = i /\ records[k].invoice = i
         /\ records[j].status = PENDING /\ records[k].status = PENDING
         /\ records[j].hacienda_state = "SIN_RESPUESTA"
         /\ records[k].hacienda_state = "SIN_RESPUESTA"

\* C27: marking a control number as processed leaves allocation alone: the
\* number the next allocation returns for a key is the same after the call
\* of _mark_control_number_processed as before it.
C27_MarkProcessedLeavesAllocation ==
  [][\A t \in Threads :
       (th[t].pc = "watermark" /\ th'[t] # th[t]) =>
         \A key \in DOMAIN counter : NextNumber(key)' = NextNumber(key)]_vars

\* C28: after a poll in which the internet check failed, the api target is
\* not ok and its reason is "internet_down"
C28_InternetDownMarksApi ==
  (/\ sen.polls > 0
   /\ ~sen.status.internet.ok
   /\ sen.status.internet.last_error = sen.polls) =>
    /\ ~sen.status.api.ok
    /\ sen.status.api.reason = "internet_down"

\* the loop threads that are inside run_once
InRunOnce == {k \in DOMAIN sen.loops : sen.loops[k] # "idle"}

\* C29: whatever the calls of start(), at most one loop thread is started
\* and two run_once never run at the same time.
C29_AtMostOneLoop ==
  /\ Len(sen.loops) <= 1
  /\ Cardinality(InRunOnce) <= 1

\* thread t holds the answer of the bridge to its attempt and has finalized
\* its record
Answered(t) == th[t].pc \in {"watermark", "mark"} /\ th[t].bridge # NoBridge

\* what an answered attempt ends with: the status and the external status of
\* its record, and the dte_status it stores on the invoice
Outcome(t) ==
  [record |-> records[th[t].rec].status,
   hacienda_state |-> records[th[t].rec].hacienda_state,
   dte_status |-> th[t].fin.status]

C31_InvalidationVerdictIsInterpreters ==
  (iresult # NoResult /\ ~iresult.raised) =>
    InvalidationVerdict(HttpResponse(200, TRUE, ibody)).status = iresult.interno

\* the statuses a finalized DTEInvalidation may have
FinalInvalidationStatuses == {APPROVED, REJECTED, PENDING, "ERROR_PUENTE", "NO_AUTENTICADO"}

\* the call of send_dte_invalidation that created row k has returned
InvalidationReturned(k) == \A t \in Threads : ~(th[t].pc = "inv_post" /\ th[t].ival = k)

\* C32: once the request that created a DTEInvalidation has returned from
\* send_dte_invalidation, the row's status is one of ACEPTADO, RECHAZADO,
\* PENDIENTE, ERROR_PUENTE, NO_AUTENTICADO.
C32_InvalidationFinalized ==
  \A k \in DOMAIN invalidations :
    InvalidationReturned(k) => invalidations[k].status \in FinalInvalidationStatuses

\* C33: in the built payload the gross amounts of the lines flagged
\* is_no_sujeta are reported in totalNoSuj and left out of the taxable total,
\* and the two totals add up to the sum of the gross amounts of the lines.
C33_NotSubjectInItsOwnBucket ==
  doc.built =>
    /\ doc.totalNoSuj = doc.no_sujeta
    /\ doc.totalGravada = doc.total_gross - doc.no_sujeta
    /\ doc.totalGravada + doc.totalNoSuj = doc.total_gross

\* the jobs that select the pending invoices under select_for_update(skip_locked)
SkipLockedJobs == {"cf_auto", "command"}

\* C34: with several of these jobs running at once, no two of them have an
\* attempt for the same invoice in flight at the same time.
C34_OneTransmissionPerInvoiceAmongJobs ==
  \A i \in Invoices : \A t \in Threads : \A u \in Threads :
    (/\ th[t].op \in SkipLockedJobs /\ th[u].op \in SkipLockedJobs
     /\ InFlight(t, i) /\ InFlight(u, i)) => t = u

\* the positions of an attempt that passed the checks of transmit_invoice_dte
\* and is inside the send function
InsideSend == BeforePost \cup {"post", "watermark"}

\* C35: an attempt that entered the send function ends with the invoice's
\* dte_send_attempts one above what the attempt's instance had, and with
\* last_dte_sent_at set to the time of the attempt, whatever its outcome.
C35_OneIncrementPerAttempt ==
  [][\A t \in Threads :
       (/\ th[t].pc \in InsideSend \cup {"mark"}
        /\ th[t].path \notin ValidationCodes
        /\ th'[t].pc \notin InsideSend \cup {"mark"}) =>
         /\ inv'[th[t].i].dte_send_attempts = th[t].m.row.dte_send_attempts + 1
         /\ inv'[th[t].i].last_dte_sent_at = th[t].now_local]_vars

\* C36: the stored last_number of a counter key never decreases, under any
\* interleaving of allocations and calls of _mark_control_number_processed.
C36_CounterNeverDecreases ==
  [][\A key \in DOMAIN counter : counter'[key] >= counter[key]]_vars

\* _mark_control_number_processed has just been called with 0, for a resend
\* answered PROCESADO, while the counter of the key was already at 1
C36_Witness ==
  \E t \in Threads :
    /\ th[t].pc = "mark"
    /\ th[t].path = "parsed"
    /\ records[th[t].rec].hacienda_state = "PROCESADO"
    /\ th[t].cnv = 0
    /\ counter[TipoDte(th[t].m.row.doc_type)] = 1

\* C37: the attempt that created a record writes to the invoice the status
\* its record has, also when the except branch ran after the record had been
\* saved.
C37_RecordAndInvoiceAgree ==
  [][\A t \in Threads :
       (/\ th[t].pc = "mark" /\ th[t].rec # 0
        /\ th'[t] # th[t]
        /\ inv'[th[t].i] # inv[th[t].i]) =>
         inv'[th[t].i].dte_status = records'[th[t].rec].status]_vars

\* the creation of invoice 2 was answered, its invoice.save raised and the
\* except branch ran: one record, PENDIENTE / SIN_RESPUESTA, and the invoice
\* PENDIENTE with unexpected_error after one attempt counted twice
C37_Witness ==
  /\ inv[2].exists
  /\ inv[2].dte_status = PENDING
  /\ inv[2].last_dte_error_code = "unexpected_error"
  /\ inv[2].dte_send_attempts = 2
  /\ Cardinality({k \in DOMAIN records : records[k].invoice = 2}) = 1
  /\ \A k \in DOMAIN records :
       records[k].invoice = 2 =>
         records[k].status = PENDING /\ records[k].hacienda_state = "SIN_RESPUESTA"

\* C38: every call of _resend_pending returns.
C38_ResendPendingReturns ==
  (th["t1"].op = "command") ~> (th["t1"].op # "command")

\* C39: a poll calls the retry worker exactly when it finds api ok and the
\* poll before it found api not ok or there is no poll before it; it calls
\* it once.
C39_AutoresendExactlyOnRecovery ==
  \A k \in 1..Len(sen.hist) :
    sen.hist[k].autoresend =
      IF sen.hist[k].api_ok /\ (k = 1 \/ ~sen.hist[k - 1].api_ok) THEN 1 ELSE 0

\* the first poll finds api ok and calls the worker, the second finds api
\* down and the third finds it ok again and calls the worker again
C39_Witness ==
  /\ Len(sen.hist) = 3
  /\ sen.hist[1].api_ok /\ sen.hist[1].autoresend = 1
  /\ ~sen.hist[2].api_ok /\ sen.hist[2].autoresend = 0
  /\ sen.hist[3].api_ok /\ sen.hist[3].autoresend = 1

\* the loop thread is in an iteration: inside a run_once that has probed the
\* two targets, or in the except clause after a run_once that raised
Polling == \E k \in DOMAIN sen.loops : sen.loops[k] \in {"True", "False", "raised"}

\* C40: once the sentinel is started its loop polls for ever, whatever
\* run_once raised before: from every state of a started sentinel a later
\* iteration comes.
C40_LoopPollsForever == [](sen.started => <>Polling)

====
